---------------------------- MODULE Spec2Model ----------------------------
(***************************************************************************)
(* Model of the enhanced VPN tunnel: the server's per-connection worker    *)
(* (VPNServerEnhanced._handle_client), the session registry, shutdown(),   *)
(* the dispatcher (TunnelManager._tunnel_loop) and the enhanced client's   *)
(* connect().  One TCP connection between one client and the server is     *)
(* modelled in detail; the two directions of the connection are byte       *)
(* streams, kept as sequences of chunks that carry their byte length.      *)
(***************************************************************************)
EXTENDS Integers, Sequences, FiniteSets, TLC

VARIABLES
    running,        \* VPNServerEnhanced.running
    clients,        \* VPNServerEnhanced.clients: address -> client info
    global_stats,   \* VPNServerEnhanced.global_stats
    require_auth,   \* server config.REQUIRE_AUTH of this deployment
    scenario,       \* which requests the peer and the upstream host use in this run
    sock,           \* the connection's two sockets: srv (server side), cli (client side)
    s2c,            \* bytes in flight server -> client
    c2s,            \* bytes in flight client -> server
    worker,         \* the _handle_client thread of the connection and its locals
    tm,             \* the TunnelManager of the connection and its _tunnel_loop thread
                    \* (printed: what the last finished pass of the loop printed;
                    \* fwd_dest: the upstream socket of the last FORWARD)
    client,         \* the VPNClientEnhanced object and its connect() call
    splice,         \* CONNECT mode: the two forwarding threads, the upstream socket
    events,         \* socket operations the server performed on the connection, in order
    fc,             \* a FlowController and the calls made on it
    tx,             \* threads of one client that call send_data on its one socket
    reg,            \* registry and statistics under several concurrent workers
    iso,            \* the dispatcher's output in two runs that differ in the session key
    dec,            \* a decrypt_aes call: the decrypted blocks it is given, its result
    rpc,            \* callers of send_data on one client and the replies they receive
    ka              \* the keepalive threads of one client object over its connections

\* the variables of the one connection that is modelled in detail
session_vars == <<running, clients, global_stats, require_auth, scenario, sock, s2c,
                  c2s, worker, tm, client, splice, events>>

vars == <<running, clients, global_stats, require_auth, scenario, sock, s2c, c2s,
          worker, tm, client, splice, events, fc, tx, reg, iso, dec, rpc, ka>>

-----------------------------------------------------------------------------
(* Bounds of the model *)

\* records (or raw wire inputs) the peer sends after the handshake
MaxRecords == 2

\* chunks of data the upstream host of a CONNECT sends
MaxUpstream == 1

-----------------------------------------------------------------------------
(* Program constants *)

AES_BLOCK == 16                  \* IV length and block length used by encrypt_aes/_pad
MAX_MESSAGE == 10485760          \* 10 * 1024 * 1024, the dispatcher's sanity limit
PEM_LEN == 451                   \* bytes of a PEM SubjectPublicKeyInfo of an RSA-2048 key
RSA_LEN == 256                   \* bytes of an RSA-2048 OAEP ciphertext
CLIENT_PEM_RECV == 2048          \* the client's recv(2048) for the public key
AUTH_ERR_JSON_LEN == 76          \* len(json.dumps) of the error auth response
AUTH_OK_JSON_LEN == 227          \* len(json.dumps) of the success auth response
AUTH_DATA_JSON_LEN == 106        \* len(json.dumps) of the client's credentials object
KEEPALIVE_ACK_JSON_LEN == 41     \* len(json.dumps) of the keepalive ack
KEEPALIVE_JSON_LEN == 53         \* len(json.dumps) of the client's keepalive
DATA_ACK_JSON_LEN == 28          \* len(json.dumps) of {"status": "ack", "size": N}
DEFAULT_BUFFER_SIZE == 4096      \* shared/constants.py

\* the address (ip, port) of the modelled peer
address == "peer1"

\* server config.VALID_CREDENTIALS
VALID_CREDENTIALS ==
    [u \in {"student", "admin", "demo"} |->
        CASE u = "student" -> "secure123"
          [] u = "admin"   -> "admin123"
          [] u = "demo"    -> "demo123"]

\* os.urandom(32): the session keys a client can draw
SessionKeys == {"k1"}

\* Values a 4-byte big-endian integer takes when the 4 bytes are not a length
\* prefix but the start of a random IV or other payload bytes.  Representatives
\* of 0 .. 2^32-1: zero, small, the bytes left of an unframed error response,
\* one more than that, just above the dispatcher's limit, and a huge value.
ArbitraryU32 == {0, 32, 92, 93, MAX_MESSAGE + 1, 2147483647}

-----------------------------------------------------------------------------
(* JSON values and plaintexts.  A plaintext is a str: either the text that  *)
(* json.dumps produced for an object, the text of a JSON value that is not  *)
(* an object, or text that is not JSON at all.                              *)

EmptyObj == <<>>

\* dict.get(key, default)
Get(obj, key, default) == IF key \in DOMAIN obj THEN obj[key] ELSE default

\* dict.update(other)
Update(obj, other) ==
    [k \in (DOMAIN obj) \cup (DOMAIN other) |->
        IF k \in DOMAIN other THEN other[k] ELSE obj[k]]

\* json.dumps(obj) for a dict; n is the length of the text
JsonDumps(obj, n) == [form |-> "json", obj |-> obj, text |-> <<"{..}">>, n |-> n]

\* a str that is not JSON, held as its parts between colons:
\* "FORWARD:h:80:x" is <<"FORWARD", "h", "80", "x">>
PlainText(s, n) == [form |-> "text", obj |-> EmptyObj, text |-> s, n |-> n]

\* a str holding a JSON value that is not an object, e.g. "[1, 2]"
JsonNonObject(n) ==
    [form |-> "json_nonobj", obj |-> EmptyObj, text |-> <<"[..]">>, n |-> n]

\* json.loads(text): the value, or raises
JsonLoads(p) ==
    IF p.form \in {"json", "json_nonobj"}
    THEN [ok |-> TRUE, isdict |-> p.form = "json", obj |-> p.obj]
    ELSE [ok |-> FALSE, isdict |-> FALSE, obj |-> EmptyObj]

-----------------------------------------------------------------------------
(* Byte streams.  A chunk stands for `len` consecutive bytes:               *)
(*   "len"  - the 4 bytes n.to_bytes(4, 'big'), val = n                      *)
(*   "blob" - one whole message body (PEM, RSA ciphertext, iv + ciphertext)  *)
(*   "frag" - bytes that are a piece of something, content unknown           *)

NoBody == [k |-> "none", key |-> "", pt |-> PlainText(<<"">>, 0)]

LenChunk(n) == [t |-> "len", len |-> 4, val |-> n, body |-> NoBody]
Blob(n, b)  == [t |-> "blob", len |-> n, val |-> 0, body |-> b]
Frag(n)     == [t |-> "frag", len |-> n, val |-> 0, body |-> NoBody]

RECURSIVE Avail(_)
Avail(s) == IF s = <<>> THEN 0 ELSE Head(s).len + Avail(Tail(s))

\* the stream after n bytes were taken from its front
RECURSIVE Drop(_, _)
Drop(s, n) ==
    IF n = 0 \/ s = <<>> THEN s
    ELSE IF Head(s).len <= n THEN Drop(Tail(s), n - Head(s).len)
    ELSE <<Frag(Head(s).len - n)>> \o Tail(s)

\* the first n bytes of the stream (n <= Avail(s)), as one chunk
Take(s, n) ==
    IF n = 0 THEN Frag(0)
    ELSE IF Head(s).len = n THEN Head(s)
    ELSE Frag(n)

\* int.from_bytes(b, 'big') of 4 received bytes: the possible values
IntFromBytes(c) == IF c.t = "len" THEN {c.val} ELSE ArbitraryU32

-----------------------------------------------------------------------------
(* Crypto primitives (shared/encryption.py) *)

\* length of iv + ciphertext for a plaintext of n bytes: 16 + len(_pad(data))
EncLen(n) == AES_BLOCK + n + (AES_BLOCK - (n % AES_BLOCK))

\* EncryptionHandler.encrypt_aes(data, aes_key): iv + ciphertext
encrypt_aes(data, key) ==
    Blob(EncLen(data.n), [k |-> "aes", key |-> key, pt |-> data])

\* EncryptionHandler.decrypt_aes(encrypted_data, aes_key): the possible outcomes.
\* iv + ciphertext made by encrypt_aes under the same key gives its plaintext.
\* Any other bytes raise when the IV is short, the ciphertext is empty or not a
\* multiple of the block size, or the result is not UTF-8; otherwise _unpad
\* strips whatever the last byte says and some meaningless str comes back.
decrypt_aes(c, key) ==
    IF c.t = "blob" /\ c.body.k = "aes" /\ c.body.key = key
    THEN {[ok |-> TRUE, pt |-> c.body.pt]}
    ELSE IF c.len <= AES_BLOCK \/ c.len % AES_BLOCK # 0
    THEN {[ok |-> FALSE, pt |-> PlainText(<<"">>, 0)]}
    ELSE {[ok |-> FALSE, pt |-> PlainText(<<"">>, 0)],
          [ok |-> TRUE, pt |-> PlainText(<<"<garbage>">>, c.len - AES_BLOCK - 1)]}

\* RSAHandler.encrypt_rsa(aes_key, public_key)
encrypt_rsa(key) ==
    Blob(RSA_LEN, [k |-> "rsa", key |-> key, pt |-> PlainText(<<"">>, 0)])

\* RSAHandler.decrypt_rsa(encrypted_data, private_key): the key, or raises
decrypt_rsa(c) ==
    IF c.t = "blob" /\ c.body.k = "rsa"
    THEN [ok |-> TRUE, key |-> c.body.key]
    ELSE [ok |-> FALSE, key |-> ""]

\* RSAHandler.serialize_public_key(public_key)
serialize_public_key ==
    Blob(PEM_LEN, [k |-> "pem", key |-> "", pt |-> PlainText(<<"">>, 0)])

\* RSAHandler.load_public_key(pem_data): TRUE when it loads, FALSE when it raises
load_public_key(c) == c.t = "blob" /\ c.body.k = "pem"

-----------------------------------------------------------------------------
(* Reading from a socket *)

\* a receive loop that hands over what it has when the peer closes
RecvExact_Partial(s, n, eof) ==
    IF Avail(s) >= n
    THEN {[st |-> "ok", data |-> Take(s, n), rest |-> Drop(s, n)]}
    ELSE IF eof
    THEN {[st |-> "ok", data |-> Frag(Avail(s)), rest |-> <<>>]}
    ELSE {}

\* The loop "while len(buf) < n: chunk = recv(..); if not chunk: <stop>; buf += chunk"
\* on stream s, where eof says that the peer has closed: the possible outcomes.
\* No outcome means that the loop is still blocked in recv.
RecvExact(s, n, eof) ==
    IF Avail(s) >= n
    THEN {[st |-> "ok", data |-> Take(s, n), rest |-> Drop(s, n)]}
    ELSE IF eof
    THEN {[st |-> "eof", data |-> Frag(Avail(s)), rest |-> <<>>]}
    ELSE {}

-----------------------------------------------------------------------------
(* Authentication (server/auth_handler.py) *)

\* a check that looks the username up and never compares the password
validate_credentials_UserOnly(username, password) ==
    username \in DOMAIN VALID_CREDENTIALS

\* AuthHandler.validate_credentials(username, password)
validate_credentials(username, password) ==
    IF username \in DOMAIN VALID_CREDENTIALS
    THEN VALID_CREDENTIALS[username] = password
    ELSE FALSE

\* AuthHandler.parse_auth_data(auth_json): <<username, password>>
parse_auth_data(auth_json) ==
    LET data == JsonLoads(auth_json) IN
    IF data.ok /\ data.isdict
    THEN <<Get(data.obj, "username", ""), Get(data.obj, "password", "")>>
    ELSE <<"", "">>

\* AuthHandler.create_auth_response(success, message, server_info), server_info
\* = EmptyObj for None; n is the length of the JSON text
create_auth_response(success, message, server_info, n) ==
    LET response == [status  |-> IF success THEN "success" ELSE "error",
                     message |-> message] IN
    JsonDumps(IF server_info # EmptyObj THEN Update(response, server_info)
              ELSE response, n)

\* the server_info argument of _handle_client's success branch
ServerInfo ==
    [server_ip    |-> "0.0.0.0",
     features     |-> <<"tunneling", "flow_control", "encryption">>,
     encryption   |-> "AES-256-CBC",
     key_exchange |-> "RSA-2048-OAEP"]

MsgEstablished == "VPN tunnel established - Full forwarding enabled"
MsgAuthFailed  == "Authentication failed: Invalid credentials"

-----------------------------------------------------------------------------
(* The flow controller (server/flow_control.py).  Every public method runs  *)
(* under self.lock, so a call is one atomic step.  Times are held in units  *)
(* of 2^-20 s: the RTT samples used are zero and powers of two, for which   *)
(* the arithmetic of _update_rtt is exact for the calls a run makes.        *)

DEFAULT_WINDOW == 65536
MAX_WINDOW == 1048576
MIN_WINDOW == 4096
RTT_SAMPLES_MAXLEN == 10
THROUGHPUT_SAMPLES_MAXLEN == 20

Min(a, b) == IF a < b THEN a ELSE b
Max(a, b) == IF a > b THEN a ELSE b
Abs(a) == IF a < 0 THEN -a ELSE a

\* quotient and remainder of a * b by c, computed by halving b so that no
\* intermediate value leaves the 32-bit range of the model checker's integers
\* (the program's integers are unbounded)
RECURSIVE MulDivMod(_, _, _)
MulDivMod(a, b, c) ==
    IF b = 0 THEN [q |-> 0, r |-> 0]
    ELSE LET h == MulDivMod(a, b \div 2, c)
             r == 2 * h.r + (IF b % 2 = 1 THEN a % c ELSE 0)
             q == 2 * h.q + (IF b % 2 = 1 THEN a \div c ELSE 0) IN
         [q |-> q + r \div c, r |-> r % c]

\* deque(maxlen=n).append(x)
DequeAppend(d, x, n) == IF Len(d) < n THEN Append(d, x) ELSE Append(Tail(d), x)

\* FlowController.__init__(initial_window_size)
FlowController(initial_window_size) ==
    [window_size |-> initial_window_size,
     max_window_size |-> MAX_WINDOW,
     min_window_size |-> MIN_WINDOW,
     ssthresh |-> initial_window_size \div 2,
     cwnd |-> MIN_WINDOW,
     in_slow_start |-> TRUE,
     rtt_samples |-> <<>>,
     smoothed_rtt |-> 0,
     rtt_variance |-> 0,
     packets_in_flight |-> 0,
     total_packets_sent |-> 0,
     total_packets_acked |-> 0,
     retransmissions |-> 0,
     throughput_samples |-> <<>>,
     bytes_transferred |-> 0]

\* can_send(data_size)
can_send(f, data_size) == f.packets_in_flight * 1024 + data_size <= f.cwnd

\* on_packet_sent(packet_size)
on_packet_sent(f, packet_size) ==
    [f EXCEPT !.packets_in_flight = @ + 1,
              !.total_packets_sent = @ + 1,
              !.bytes_transferred = @ + packet_size]

\* _update_rtt(rtt_sample): alpha = 1/8, beta = 1/4
update_rtt(f, rtt_sample) ==
    LET g == [f EXCEPT !.rtt_samples = DequeAppend(@, rtt_sample, RTT_SAMPLES_MAXLEN)]
        error == rtt_sample - f.smoothed_rtt IN
    IF f.smoothed_rtt = 0
    THEN [g EXCEPT !.smoothed_rtt = rtt_sample, !.rtt_variance = rtt_sample \div 2]
    ELSE [g EXCEPT !.smoothed_rtt = @ + error \div 8,
                   !.rtt_variance = @ + (Abs(error) - @) \div 4]

\* _update_throughput(), where elapsed says that a second or more has passed
\* since last_stat_time; a sample is kept as the bytes it was computed from
update_throughput(f, elapsed) ==
    IF elapsed
    THEN [f EXCEPT !.throughput_samples =
                      DequeAppend(@, f.bytes_transferred, THROUGHPUT_SAMPLES_MAXLEN),
                   !.bytes_transferred = 0]
    ELSE f

\* an on_ack_received whose congestion avoidance subtracts the increment
on_ack_received_Shrinks(f, packet_size, rtt, elapsed) ==
    [f EXCEPT !.packets_in_flight = @ - 1, !.total_packets_acked = @ + 1,
              !.cwnd = IF f.in_slow_start
                       THEN Min(@ + packet_size, f.max_window_size)
                       ELSE @ - Max(1, MulDivMod(packet_size, packet_size, f.cwnd).q),
              !.in_slow_start = f.in_slow_start /\ ~(f.cwnd + packet_size >= f.ssthresh)]

\* an on_ack_received that leaves slow start one ack late: it compares the
\* window before the ack with the threshold
on_ack_received_LateExit(f, packet_size, rtt, elapsed) ==
    [f EXCEPT !.packets_in_flight = @ - 1, !.total_packets_acked = @ + 1,
              !.cwnd = IF f.in_slow_start
                       THEN Min(@ + packet_size, f.max_window_size)
                       ELSE Min(@ + Max(1, MulDivMod(packet_size, packet_size, f.cwnd).q),
                                f.max_window_size),
              !.in_slow_start = f.in_slow_start /\ ~(f.cwnd >= f.ssthresh)]

\* an on_ack_received that leaves the window uncapped
on_ack_received_Uncapped(f, packet_size, rtt, elapsed) ==
    [f EXCEPT !.packets_in_flight = @ - 1, !.total_packets_acked = @ + 1,
              !.cwnd = @ + packet_size]

\* on_ack_received(packet_size, rtt)
on_ack_received(f, packet_size, rtt, elapsed) ==
    LET a == update_rtt([f EXCEPT !.packets_in_flight = @ - 1,
                                  !.total_packets_acked = @ + 1], rtt)
        grown == IF a.in_slow_start
                 THEN [a EXCEPT !.cwnd = @ + packet_size,
                                !.in_slow_start = ~(a.cwnd + packet_size >= a.ssthresh)]
                 ELSE LET increment == MulDivMod(packet_size, packet_size, a.cwnd).q IN
                      [a EXCEPT !.cwnd = @ + Max(1, increment)]
        capped == [grown EXCEPT !.cwnd = Min(@, grown.max_window_size)] IN
    update_throughput(capped, elapsed)

\* an on_packet_loss that also forgets the packets in flight
on_packet_loss_ClearsFlight(f) ==
    [f EXCEPT !.retransmissions = @ + 1, !.packets_in_flight = 0,
              !.ssthresh = Max(f.cwnd \div 2, f.min_window_size),
              !.cwnd = Max(f.cwnd \div 2, f.min_window_size),
              !.in_slow_start = FALSE]

\* an on_packet_loss that halves the window without the floor
on_packet_loss_NoFloor(f) ==
    [f EXCEPT !.retransmissions = @ + 1,
              !.ssthresh = f.cwnd \div 2,
              !.cwnd = f.cwnd \div 2,
              !.in_slow_start = FALSE]

\* on_packet_loss()
on_packet_loss(f) ==
    LET ssthresh == Max(f.cwnd \div 2, f.min_window_size) IN
    [f EXCEPT !.retransmissions = @ + 1,
              !.ssthresh = ssthresh,
              !.cwnd = ssthresh,
              !.in_slow_start = FALSE]

\* an on_timeout that shrinks the window and stays in congestion avoidance
on_timeout_StaysInAvoidance(f) ==
    [f EXCEPT !.ssthresh = Max(f.cwnd \div 2, f.min_window_size),
              !.cwnd = f.min_window_size,
              !.in_slow_start = FALSE]

\* an on_timeout that counts a retransmission, as on_packet_loss does
on_timeout_CountsRetransmission(f) ==
    [f EXCEPT !.retransmissions = @ + 1,
              !.ssthresh = Max(f.cwnd \div 2, f.min_window_size),
              !.cwnd = f.min_window_size,
              !.in_slow_start = TRUE]

\* on_timeout()
on_timeout(f) ==
    [f EXCEPT !.ssthresh = Max(f.cwnd \div 2, f.min_window_size),
              !.cwnd = f.min_window_size,
              !.in_slow_start = TRUE]

\* the results of get_timeout are held in fifths of the time unit, in which
\* 0.2 s, 1.0 s and 60.0 s are whole numbers
SECOND == 5242880

\* get_timeout()
get_timeout(f) ==
    IF f.smoothed_rtt = 0 THEN SECOND
    ELSE LET rto == 5 * (f.smoothed_rtt + 4 * f.rtt_variance) IN
         Max(SECOND \div 5, Min(rto, 60 * SECOND))

\* calls made on one controller in a run
MaxFlowCalls == 4

\* arguments of the calls: packet sizes (an empty packet, a small one, one as
\* large as the largest window) and RTT samples (0 s and 0.25 s)
PacketSizes == {0, 1024, MAX_WINDOW}
RttInputs == {0, 262144}

\* the windows a controller is constructed with: the default, and 4 KiB
InitialWindows == {DEFAULT_WINDOW, MIN_WINDOW}

\* a controller nobody has called yet (called: the last method called on it,
\* packet_size: the size that call was given, acks: the on_ack_received calls)
Uncalled(f) == [ctl |-> f, calls |-> 0, called |-> "__init__", packet_size |-> 0,
                acks |-> 0]

\* the state of the controller after a call of method `name` with packet_size n
AfterCall(name, n, f) ==
    /\ fc.calls < MaxFlowCalls
    /\ fc' = [ctl |-> f, calls |-> fc.calls + 1, called |-> name, packet_size |-> n,
              acks |-> IF name = "on_ack_received" THEN fc.acks + 1 ELSE fc.acks]
    /\ UNCHANGED <<session_vars, tx, reg, iso, dec, rpc, ka>>

CallPacketSent ==
    \E n \in PacketSizes : AfterCall("on_packet_sent", n, on_packet_sent(fc.ctl, n))

CallAckReceived ==
    \E n \in PacketSizes, rtt \in RttInputs, elapsed \in BOOLEAN :
        AfterCall("on_ack_received", n, on_ack_received(fc.ctl, n, rtt, elapsed))

CallPacketLoss == AfterCall("on_packet_loss", 0, on_packet_loss(fc.ctl))

CallTimeout == AfterCall("on_timeout", 0, on_timeout(fc.ctl))

NextFlow == CallPacketSent \/ CallAckReceived \/ CallPacketLoss \/ CallTimeout

-----------------------------------------------------------------------------
(* Concurrent writers of one tunnel socket.  On the client's socket: the    *)
(* application (or a local-proxy worker thread) and the keepalive thread,   *)
(* both in send_data.  On the server's socket: the dispatcher sending a     *)
(* reply, and forward_to_client sending upstream data.  No lock guards      *)
(* either socket.  A sendall or send of one buffer is taken as one step.    *)

\* send_data (or reply) calls of one writer in a run
MaxSendCalls == 2

WritersOf(side) ==
    IF side = "client" THEN {"application", "keepalive"}
    ELSE {"dispatcher", "forward_to_client"}

\* a socket nobody has written to; wire: what was written, in order, as
\* [by: the writer, call: the number of its call, part: "len" or "body"]
Unwritten(side) ==
    [side |-> side,
     pc |-> [t \in WritersOf(side) |-> "idle"],
     calls |-> [t \in WritersOf(side) |-> 0],
     wire |-> <<>>]

\* writers that send a 4-byte length prefix and then the ciphertext
SendsPrefix(t) == t \in {"application", "keepalive", "dispatcher"}

\* sendall(data_len.to_bytes(4, 'big'))
SendLength(t) ==
    /\ t \in DOMAIN tx.pc /\ SendsPrefix(t)
    /\ tx.pc[t] = "idle" /\ tx.calls[t] < MaxSendCalls
    /\ tx' = [tx EXCEPT !.pc[t] = "len_sent", !.calls[t] = @ + 1,
                        !.wire = Append(@, [by |-> t, call |-> tx.calls[t] + 1,
                                            part |-> "len"])]
    /\ UNCHANGED <<session_vars, fc, reg, iso, dec, rpc, ka>>

\* sendall(encrypted_data); send_data goes on to receive the reply, a
\* dispatcher handler returns
SendCiphertext(t) ==
    /\ t \in DOMAIN tx.pc /\ tx.pc[t] = "len_sent"
    /\ tx' = [tx EXCEPT !.pc[t] = IF tx.side = "client" THEN "recv_ack" ELSE "idle",
                        !.wire = Append(@, [by |-> t, call |-> tx.calls[t],
                                            part |-> "body"])]
    /\ UNCHANGED <<session_vars, fc, reg, iso, dec, rpc, ka>>

\* send_data returns: with the reply it received, or from its except clause
\* when the recv timed out or failed
SendDataReturns(t) ==
    /\ t \in DOMAIN tx.pc /\ tx.pc[t] = "recv_ack"
    /\ tx' = [tx EXCEPT !.pc[t] = "idle"]
    /\ UNCHANGED <<session_vars, fc, reg, iso, dec, rpc, ka>>

\* forward_to_client: self.client_socket.send(encrypted_data), no prefix
SpliceSend ==
    /\ "forward_to_client" \in DOMAIN tx.pc
    /\ tx.calls["forward_to_client"] < MaxSendCalls
    /\ tx' = [tx EXCEPT !.calls["forward_to_client"] = @ + 1,
                        !.wire = Append(@, [by |-> "forward_to_client",
                                            call |-> tx.calls["forward_to_client"] + 1,
                                            part |-> "body"])]
    /\ UNCHANGED <<session_vars, fc, reg, iso, dec, rpc, ka>>

NextWriters ==
    \/ \E t \in DOMAIN tx.pc : SendLength(t)
    \/ \E t \in DOMAIN tx.pc : SendCiphertext(t)
    \/ \E t \in DOMAIN tx.pc : SendDataReturns(t)
    \/ SpliceSend

-----------------------------------------------------------------------------
(* Several workers of one server registering and deregistering clients.     *)
(* _handle_client holds no lock: self.global_stats['active_tunnels'] += 1   *)
(* and -= 1 are each a read of the counter followed by a write of the value *)
(* computed from what was read, and another worker can run in between.      *)

\* connections the accept loop hands to workers in a run
MaxWorkers == 2

Workers == 1..MaxWorkers

\* the registry of a server no connection has reached yet; read: the counter
\* value a worker has read and not yet written back
NoWorkers ==
    [clients |-> {},
     active_tunnels |-> 0,
     pc |-> [w \in Workers |-> "handshake"],
     read |-> [w \in Workers |-> 0]]

\* self.clients[address] = {...}
StoreClient(w) ==
    /\ reg.pc[w] = "handshake"
    /\ reg' = [reg EXCEPT !.clients = @ \cup {w}, !.pc[w] = "stored"]
    /\ UNCHANGED <<session_vars, fc, tx, iso, dec, rpc, ka>>

\* the handshake ends without a session: rejected credentials or an exception
NoSession(w) ==
    /\ reg.pc[w] = "handshake"
    /\ reg' = [reg EXCEPT !.pc[w] = "finally"]
    /\ UNCHANGED <<session_vars, fc, tx, iso, dec, rpc, ka>>

\* self.global_stats['active_tunnels'] += 1, the read
ReadForIncrement(w) ==
    /\ reg.pc[w] = "stored"
    /\ reg' = [reg EXCEPT !.read[w] = reg.active_tunnels, !.pc[w] = "incrementing"]
    /\ UNCHANGED <<session_vars, fc, tx, iso, dec, rpc, ka>>

\* self.global_stats['active_tunnels'] += 1, the write
WriteIncrement(w) ==
    /\ reg.pc[w] = "incrementing"
    /\ reg' = [reg EXCEPT !.active_tunnels = reg.read[w] + 1, !.pc[w] = "tunnel"]
    /\ UNCHANGED <<session_vars, fc, tx, iso, dec, rpc, ka>>

\* _handle_tunnel_with_flow_control returns
TunnelReturns(w) ==
    /\ reg.pc[w] = "tunnel"
    /\ reg' = [reg EXCEPT !.pc[w] = "finally"]
    /\ UNCHANGED <<session_vars, fc, tx, iso, dec, rpc, ka>>

\* finally: if address in self.clients, the read of active_tunnels -= 1
ReadForDecrement(w) ==
    /\ reg.pc[w] = "finally"
    /\ reg' = IF w \in reg.clients
              THEN [reg EXCEPT !.read[w] = reg.active_tunnels, !.pc[w] = "decrementing"]
              ELSE [reg EXCEPT !.pc[w] = "done"]
    /\ UNCHANGED <<session_vars, fc, tx, iso, dec, rpc, ka>>

\* self.global_stats['active_tunnels'] -= 1, the write
WriteDecrement(w) ==
    /\ reg.pc[w] = "decrementing"
    /\ reg' = [reg EXCEPT !.active_tunnels = reg.read[w] - 1, !.pc[w] = "deleting"]
    /\ UNCHANGED <<session_vars, fc, tx, iso, dec, rpc, ka>>

\* del self.clients[address]
DelClient(w) ==
    /\ reg.pc[w] = "deleting"
    /\ reg' = [reg EXCEPT !.clients = @ \ {w}, !.pc[w] = "done"]
    /\ UNCHANGED <<session_vars, fc, tx, iso, dec, rpc, ka>>

NextRegistry ==
    \E w \in Workers :
        \/ StoreClient(w)
        \/ NoSession(w)
        \/ ReadForIncrement(w)
        \/ WriteIncrement(w)
        \/ TunnelReturns(w)
        \/ ReadForDecrement(w)
        \/ WriteDecrement(w)
        \/ DelClient(w)

\* no worker is between its insert and its increment, or between its
\* decrement and its delete
NoneMidUpdate ==
    \A w \in Workers : reg.pc[w] \in {"handshake", "tunnel", "finally", "done"}

-----------------------------------------------------------------------------
(* decrypt_aes byte by byte (shared/encryption.py).  A call is given        *)
(* encrypted_data of n bytes; when the IV and the ciphertext have lengths   *)
(* the cipher accepts, `padded` is what the cipher decrypts the ciphertext  *)
(* to under the key, a sequence of n - 16 byte values.                      *)

\* data[:k] of Python for k >= 0
UpTo(data, k) == SubSeq(data, 1, Min(k, Len(data)))

\* _unpad(data): data[:-padding_length] with padding_length = data[-1]; the
\* slice data[:-0] is data[:0], and a padding_length above len(data) leaves
\* nothing
unpad(data) ==
    LET padding_length == data[Len(data)] IN
    IF padding_length = 0 THEN <<>>
    ELSE UpTo(data, Max(0, Len(data) - padding_length))

\* bytes.decode() succeeds (of the byte values used here, those below 128
\* are ASCII and 255 occurs in no UTF-8 text)
Decodes(bytes) == \A i \in 1..Len(bytes) : bytes[i] < 128

Raises == [ok |-> FALSE, plaintext |-> <<>>]

\* decrypt_aes(encrypted_data, aes_key) for encrypted_data of n bytes whose
\* ciphertext decrypts to `padded`: modes.CBC raises on an IV that is not 16
\* bytes, finalize() raises on a ciphertext that is not a multiple of the
\* block, _unpad raises on data[-1] of empty data, decode() raises on bytes
\* that are not UTF-8
decrypt_aes_bytes(n, padded) ==
    IF n < AES_BLOCK THEN Raises
    ELSE IF (n - AES_BLOCK) % AES_BLOCK # 0 THEN Raises
    ELSE IF n = AES_BLOCK THEN Raises
    ELSE LET plaintext == unpad(padded) IN
         IF Decodes(plaintext) THEN [ok |-> TRUE, plaintext |-> plaintext]
         ELSE Raises

\* k bytes of value v
Bytes(k, v) == [i \in 1..k |-> v]

\* byte values of the final bytes, and of the text in front of them
TailBytes == {0, 1, 2, 15, 16, 17, 32, 255}
TextBytes == {65, 255}

\* how many final bytes carry the same value
TailLengths == {1, 2, 15, 16}

\* the calls: inputs too short for an IV, a lone IV, a ciphertext that is no
\* multiple of the block, and one or two decrypted blocks that end in k bytes
\* of value v behind text bytes
DecryptInputs ==
    {[n |-> n, padded |-> <<>>] : n \in {0, 8, 16, 24, 40}}
      \cup {[n |-> AES_BLOCK + blocks * AES_BLOCK,
             padded |-> Bytes(blocks * AES_BLOCK - k, t) \o Bytes(k, v)] :
              blocks \in {1, 2}, k \in TailLengths, v \in TailBytes, t \in TextBytes}

\* a call that has not returned yet
Undecrypted(in) == [n |-> in.n, padded |-> in.padded, returned |-> FALSE,
                    ok |-> FALSE, plaintext |-> <<>>]

\* the call returns or raises
DecryptReturns ==
    /\ ~dec.returned
    /\ LET r == decrypt_aes_bytes(dec.n, dec.padded) IN
       dec' = [dec EXCEPT !.returned = TRUE, !.ok = r.ok, !.plaintext = r.plaintext]
    /\ UNCHANGED <<session_vars, fc, tx, reg, iso, rpc, ka>>

NextDecrypt == DecryptReturns

-----------------------------------------------------------------------------
(* The callers of VPNClientEnhanced.send_data on one connected client: the
   keepalive thread, a local-proxy worker in forward_traffic and a caller of
   request_statistics.  send_data holds no lock: it writes its request, then
   reads the next record the socket delivers.  The bytes of one record are
   taken as written and read in one piece here; the interleaving of the two
   writes is modelled by the writers of one socket above. *)

MaxCallsPerCaller == 2

Callers == {"_keepalive_loop", "forward_traffic", "request_statistics"}

\* the plaintext each caller hands to send_data
RequestOf(c) ==
    CASE c = "_keepalive_loop" -> "keepalive"
      [] c = "forward_traffic" -> "FORWARD"
      [] c = "request_statistics" -> "STATS_REQ"

\* the reply _tunnel_loop sends for a request
ReplyTo(request) ==
    CASE request = "keepalive" -> "keepalive_ack"
      [] request = "FORWARD" -> "forward_result"
      [] request = "STATS_REQ" -> "stats"

\* no call made yet, nothing on the socket
NoCalls ==
    [caller |-> [c \in Callers |-> [pc |-> "idle", calls |-> 0, success |-> FALSE,
                                    ack |-> ""]],
     requests |-> <<>>, replies |-> <<>>]

\* send_data up to the end of its two sendall calls
SendRequest(c) ==
    /\ rpc.caller[c].pc = "idle"
    /\ rpc.caller[c].calls < MaxCallsPerCaller
    /\ rpc' = [rpc EXCEPT !.caller[c].pc = "sent",
                          !.caller[c].calls = @ + 1,
                          !.caller[c].success = FALSE,
                          !.requests = Append(@, RequestOf(c))]
    /\ UNCHANGED <<session_vars, fc, tx, reg, iso, dec, ka>>

\* the dispatcher reads the next request and sends its reply
TunnelReplies ==
    /\ rpc.requests # <<>>
    /\ rpc' = [rpc EXCEPT !.requests = Tail(@),
                          !.replies = Append(@, ReplyTo(Head(rpc.requests)))]
    /\ UNCHANGED <<session_vars, fc, tx, reg, iso, dec, ka>>

\* send_data reads the next record from the socket and returns (True, ack, rtt)
RecvReply(c) ==
    /\ rpc.caller[c].pc = "sent"
    /\ rpc.replies # <<>>
    /\ rpc' = [rpc EXCEPT !.caller[c].pc = "idle",
                          !.caller[c].success = TRUE,
                          !.caller[c].ack = Head(rpc.replies),
                          !.replies = Tail(@)]
    /\ UNCHANGED <<session_vars, fc, tx, reg, iso, dec, ka>>

NextCallers ==
    \/ \E c \in Callers : SendRequest(c)
    \/ TunnelReplies
    \/ \E c \in Callers : RecvReply(c)

-----------------------------------------------------------------------------
(* The keepalive threads of one VPNClientEnhanced over its connections: the
   main thread calls connect() and disconnect() in turn, each successful
   connect() starts a thread in _keepalive_loop.  socket is the number of the
   connection self.socket refers to, 0 for None. *)

MaxConnects == 2
MaxKeepalives == 2

\* the client after __init__
NoKeepalive ==
    [connected |-> FALSE, keepalive_running |-> FALSE, socket |-> 0,
     connects |-> 0, main |-> "idle", thread |-> <<>>, sent |-> <<>>]

\* connect() succeeds: a new socket, connected, _start_keepalive
Connect ==
    /\ ka.main = "idle"
    /\ ~ka.connected
    /\ ka.connects < MaxConnects
    /\ ka' = [ka EXCEPT !.connects = @ + 1,
                        !.socket = ka.connects + 1,
                        !.connected = TRUE,
                        !.keepalive_running = TRUE,
                        !.thread = Append(@, [pc |-> "test",
                                              started_for |-> ka.connects + 1])]
    /\ UNCHANGED <<session_vars, fc, tx, reg, iso, dec, rpc>>

\* disconnect() up to the return of _stop_keepalive: the flag is cleared and
\* join(timeout=2.0) on self.keepalive_thread, the thread started last,
\* returns: the thread has ended, or it is in its sleep of KEEPALIVE_INTERVAL
\* (30 s) and the timeout elapses first
StopKeepalive ==
    /\ ka.main = "idle"
    /\ ka.connected
    /\ ka.thread[Len(ka.thread)].pc \in {"done", "sleep"}
    /\ ka' = [ka EXCEPT !.keepalive_running = FALSE, !.main = "stopped"]
    /\ UNCHANGED <<session_vars, fc, tx, reg, iso, dec, rpc>>

\* the rest of disconnect()
Disconnect ==
    /\ ka.main = "stopped"
    /\ ka' = [ka EXCEPT !.connected = FALSE, !.socket = 0, !.main = "idle"]
    /\ UNCHANGED <<session_vars, fc, tx, reg, iso, dec, rpc>>

\* the loop condition of _keepalive_loop
KeepaliveTest(t) ==
    /\ ka.thread[t].pc = "test"
    /\ ka' = [ka EXCEPT !.thread[t].pc =
                 IF ka.keepalive_running /\ ka.connected THEN "sleep" ELSE "done"]
    /\ UNCHANGED <<session_vars, fc, tx, reg, iso, dec, rpc>>

\* time.sleep(KEEPALIVE_INTERVAL) returns
KeepaliveWakes(t) ==
    /\ ka.thread[t].pc = "sleep"
    /\ Len(ka.sent) < MaxKeepalives
    /\ ka' = [ka EXCEPT !.thread[t].pc = "woke"]
    /\ UNCHANGED <<session_vars, fc, tx, reg, iso, dec, rpc>>

\* if self.connected: send_data(keepalive), which writes to self.socket
KeepaliveSends(t) ==
    /\ ka.thread[t].pc = "woke"
    /\ ka' = [ka EXCEPT !.thread[t].pc = "test",
                        !.sent = IF ka.connected /\ ka.socket # 0
                                 THEN Append(@, [thread |-> t, socket |-> ka.socket])
                                 ELSE @]
    /\ UNCHANGED <<session_vars, fc, tx, reg, iso, dec, rpc>>

NextKeepalive ==
    \/ Connect \/ StopKeepalive \/ Disconnect
    \/ \E t \in DOMAIN ka.thread : KeepaliveTest(t)
    \/ \E t \in DOMAIN ka.thread : KeepaliveWakes(t)
    \/ \E t \in DOMAIN ka.thread : KeepaliveSends(t)

-----------------------------------------------------------------------------
(* Inputs *)

Usernames == {"student", "nobody"}
Passwords == {"secure123", "admin123"}

\* json.dumps({'username':.., 'password':.., 'timestamp':.., 'client_version': '2.0'})
AuthData(u, p) ==
    JsonDumps([username |-> u, password |-> p, client_version |-> "2.0"],
              AUTH_DATA_JSON_LEN)

\* what a peer can send as step-3 plaintext: the enhanced client's credentials
\* object, text that is not JSON, and a JSON value that is not an object
AuthInputs ==
    {AuthData(u, p) : u \in Usernames, p \in Passwords}
        \cup {PlainText(<<"hello">>, 5), JsonNonObject(6)}

\* TunnelManager.stats after __init__
NoStats == [bytes_sent |-> 0, bytes_received |-> 0, packets_sent |-> 0,
            packets_received |-> 0, connections |-> 0]

NoResult == [success |-> FALSE, message |-> "", server_info |-> EmptyObj]

\* the connection after VPNServerEnhanced.__init__, before the peer connects,
\* in a run where the peer and the upstream host use the inputs of scenario sc
InitSession(sc) ==
    /\ scenario = sc
    /\ running = TRUE
    /\ clients = <<>>
    /\ global_stats = [total_connections |-> 0, active_tunnels |-> 0]
    /\ require_auth \in BOOLEAN
    /\ sock = [srv |-> "none", cli |-> "open"]
    /\ s2c = <<>>
    /\ c2s = <<>>
    /\ worker = [pc |-> "idle", aes_key |-> "", auth_json |-> PlainText(<<"">>, 0),
                 username |-> "", password |-> "", valid |-> FALSE,
                 tunnel_manager |-> FALSE]
    /\ tm = [running |-> FALSE, pc |-> "none", aes_key |-> "", req_len |-> 0,
             encrypted_data |-> Frag(0), stats |-> NoStats, printed |-> "",
             fwd_dest |-> "none"]
    /\ splice = [t1 |-> "none", t2 |-> "none", dest |-> "none", pending |-> <<>>, upstream_sent |-> 0,
                 upstream_closed |-> FALSE]
    /\ \E a \in AuthInputs :
          client = [pc |-> "recv_pub", auth_data |-> a, aes_key |-> "",
                    resp_len |-> 0, connected |-> FALSE, keepalive_running |-> FALSE,
                    sent |-> 0, result |-> NoResult]
    /\ events = <<>>

\* two runs of one dispatcher that differ in the session key only, before the
\* first record; log: what the dispatcher printed, replies: the plaintexts of
\* the stats replies it sent
IsoKeys == {"k1", "k2"}

TwoRuns ==
    [run |-> [k \in IsoKeys |-> [stats |-> NoStats, log |-> <<>>, replies |-> <<>>]],
     sent |-> 0]

\* the components modelled on their own, untouched
InitFc == fc = Uncalled(FlowController(DEFAULT_WINDOW))
InitTx == tx = Unwritten("client")
InitReg == reg = NoWorkers
InitIso == iso = TwoRuns
InitDec == dec = Undecrypted([n |-> 0, padded |-> <<>>])
InitRpc == rpc = NoCalls
InitKa == ka = NoKeepalive

\* the state in which a run of scenario sc starts
InitWith(sc) == InitSession(sc) /\ InitFc /\ InitTx /\ InitReg /\ InitIso /\ InitDec /\ InitRpc /\ InitKa

Init == InitWith("basic")

\* the connection at rest, for the runs of a component modelled on its own
Quiet(sc) ==
    /\ InitSession(sc)
    /\ require_auth
    /\ client.auth_data = AuthData("student", "secure123")

-----------------------------------------------------------------------------
(* The accept loop and the per-connection worker                            *)
(* (server/vpn_server_enhanced.py: start, _handle_client)                   *)

\* the worker's locals after an exception: control is in the finally block
\* a worker that swallows the exception and goes on to set the session up
Raised_Resumes(w) == [w EXCEPT !.pc = "register"]

Raised(w) == [w EXCEPT !.pc = "finally_stop"]

\* start(): accept() returns the connection, the worker thread is started
Accept ==
    /\ running
    /\ worker.pc = "idle"
    /\ sock' = [sock EXCEPT !.srv = "open"]
    /\ global_stats' = [global_stats EXCEPT !.total_connections = @ + 1]
    /\ worker' = [worker EXCEPT !.pc = "send_public_key"]
    /\ UNCHANGED <<running, clients, require_auth, scenario, fc, tx, reg, iso, dec, rpc, ka, s2c, c2s, tm, client, events, splice>>

\* Step 1: client_socket.sendall(public_pem), no length prefix
SendPublicKey ==
    /\ worker.pc = "send_public_key"
    /\ IF sock.srv = "open"
       THEN /\ s2c' = Append(s2c, serialize_public_key)
            /\ events' = Append(events, "send_public_key")
            /\ worker' = [worker EXCEPT !.pc = "recv_key"]
       ELSE /\ worker' = Raised(worker)
            /\ UNCHANGED <<s2c, events>>
    /\ UNCHANGED <<running, clients, global_stats, require_auth, scenario, fc, tx, reg, iso, dec, rpc, ka, sock, c2s, tm, client, splice>>

\* Step 2: receive the 4-byte length and the RSA-wrapped AES key, decrypt_rsa
RecvSessionKey ==
    /\ worker.pc = "recv_key"
    /\ IF sock.srv # "open"
       THEN /\ worker' = Raised(worker)
            /\ UNCHANGED <<c2s, events>>
       ELSE \E r1 \in RecvExact(c2s, 4, sock.cli = "closed") :
            IF r1.st = "eof"
            THEN /\ worker' = Raised(worker)
                 /\ c2s' = r1.rest
                 /\ UNCHANGED events
            ELSE \E key_len \in IntFromBytes(r1.data) :
                 \E r2 \in RecvExact(r1.rest, key_len, sock.cli = "closed") :
                    /\ c2s' = r2.rest
                    /\ IF r2.st = "ok" /\ decrypt_rsa(r2.data).ok
                       THEN /\ worker' = [worker EXCEPT
                                            !.pc = "recv_auth",
                                            !.aes_key = decrypt_rsa(r2.data).key]
                            /\ events' = Append(events, "recv_session_key")
                       ELSE /\ worker' = Raised(worker)
                            /\ UNCHANGED events
    /\ UNCHANGED <<running, clients, global_stats, require_auth, scenario, fc, tx, reg, iso, dec, rpc, ka, sock, s2c, tm, client, splice>>

\* Step 3: receive the 4-byte length and the encrypted credentials, decrypt_aes
RecvCredentials ==
    /\ worker.pc = "recv_auth"
    /\ IF sock.srv # "open"
       THEN /\ worker' = Raised(worker)
            /\ UNCHANGED <<c2s, events>>
       ELSE \E r1 \in RecvExact(c2s, 4, sock.cli = "closed") :
            IF r1.st = "eof"
            THEN /\ worker' = Raised(worker)
                 /\ c2s' = r1.rest
                 /\ UNCHANGED events
            ELSE \E auth_len \in IntFromBytes(r1.data) :
                 \E r2 \in RecvExact(r1.rest, auth_len, sock.cli = "closed") :
                 \E d \in decrypt_aes(r2.data, worker.aes_key) :
                    /\ c2s' = r2.rest
                    /\ IF r2.st = "ok" /\ d.ok
                       THEN /\ worker' = [worker EXCEPT !.pc = "validate",
                                                        !.auth_json = d.pt]
                            /\ events' = Append(events, "recv_credentials")
                       ELSE /\ worker' = Raised(worker)
                            /\ UNCHANGED events
    /\ UNCHANGED <<running, clients, global_stats, require_auth, scenario, fc, tx, reg, iso, dec, rpc, ka, sock, s2c, tm, client, splice>>

\* Step 4: parse_auth_data and validate_credentials choose the branch
Validate ==
    /\ worker.pc = "validate"
    /\ LET cred == parse_auth_data(worker.auth_json)
           valid == validate_credentials(cred[1], cred[2]) IN
       worker' = [worker EXCEPT
                    !.username = cred[1], !.password = cred[2], !.valid = valid,
                    !.pc = IF valid THEN "send_auth_ok" ELSE "send_auth_error"]
    /\ UNCHANGED <<running, clients, global_stats, require_auth, scenario, fc, tx, reg, iso, dec, rpc, ka, sock, s2c, c2s,
                   tm, client, events, splice>>

\* the wire form of the success response: sendall(resp_len.to_bytes(4, 'big')),
\* sendall(encrypted_response)
AuthOkWire(key) ==
    LET response == create_auth_response(TRUE, MsgEstablished, ServerInfo,
                                         AUTH_OK_JSON_LEN)
        encrypted_response == encrypt_aes(response, key) IN
    <<LenChunk(encrypted_response.len), encrypted_response>>

\* the wire form of the error response: client_socket.send(encrypted_response)
AuthErrorWire(key) ==
    LET response == create_auth_response(FALSE, MsgAuthFailed, EmptyObj,
                                         AUTH_ERR_JSON_LEN)
        encrypted_response == encrypt_aes(response, key) IN
    <<encrypted_response>>

\* success branch: build, encrypt and send the response
SendAuthOk ==
    /\ worker.pc = "send_auth_ok"
    /\ IF sock.srv = "open"
       THEN /\ s2c' = s2c \o AuthOkWire(worker.aes_key)
            /\ events' = Append(events, "send_auth_response")
            /\ worker' = [worker EXCEPT !.pc = "register"]
       ELSE /\ worker' = Raised(worker)
            /\ UNCHANGED <<s2c, events>>
    /\ UNCHANGED <<running, clients, global_stats, require_auth, scenario, fc, tx, reg, iso, dec, rpc, ka, sock, c2s, tm, client, splice>>

\* the registry entry of a session
ClientInfo(w) ==
    [socket |-> address, aes_key |-> w.aes_key, username |-> w.username,
     authenticated |-> TRUE]

\* tunnel_manager = TunnelManager(aes_key, client_socket); self.clients[address] = {...}
Register ==
    /\ worker.pc = "register"
    /\ tm' = [tm EXCEPT !.aes_key = worker.aes_key, !.running = FALSE]
    /\ clients' = [a \in {address} |-> ClientInfo(worker)]
    /\ worker' = [worker EXCEPT !.pc = "count", !.tunnel_manager = TRUE]
    /\ UNCHANGED <<running, global_stats, require_auth, scenario, fc, tx, reg, iso, dec, rpc, ka, sock, s2c, c2s, client, splice, events>>

\* self.global_stats['active_tunnels'] += 1
CountTunnel ==
    /\ worker.pc = "count"
    /\ global_stats' = [global_stats EXCEPT !.active_tunnels = @ + 1]
    /\ worker' = [worker EXCEPT !.pc = "start_tunnel"]
    /\ UNCHANGED <<running, clients, require_auth, scenario, fc, tx, reg, iso, dec, rpc, ka, sock, s2c, c2s, tm, client, events, splice>>

\* _handle_tunnel_with_flow_control: tunnel_manager.start_tunnel()
StartTunnel ==
    /\ worker.pc = "start_tunnel"
    /\ tm' = [tm EXCEPT !.running = TRUE, !.pc = "select"]
    /\ worker' = [worker EXCEPT !.pc = "wait"]
    /\ events' = Append(events, "start_tunnel")
    /\ UNCHANGED <<running, clients, global_stats, require_auth, scenario, fc, tx, reg, iso, dec, rpc, ka, sock, s2c, c2s, client, splice>>

\* while self.running and tunnel_manager.running: time.sleep(1.0)
WaitTunnel ==
    /\ worker.pc = "wait"
    /\ ~(running /\ tm.running)
    /\ worker' = [worker EXCEPT !.pc = "finally_stop"]
    /\ UNCHANGED <<running, clients, global_stats, require_auth, scenario, fc, tx, reg, iso, dec, rpc, ka, sock, s2c, c2s,
                   tm, client, events, splice>>

\* a worker whose failure branch lacks the close and runs on into the
\* session set-up
SendAuthError_FallsThrough ==
    /\ worker.pc = "send_auth_error"
    /\ s2c' = s2c \o AuthErrorWire(worker.aes_key)
    /\ events' = Append(events, "send_auth_response")
    /\ worker' = [worker EXCEPT !.pc = "register"]
    /\ UNCHANGED <<running, clients, global_stats, require_auth, scenario, fc, tx, reg, iso, dec, rpc, ka, sock, c2s, tm, client, splice>>

\* failure branch: build, encrypt and send the response
SendAuthError ==
    /\ worker.pc = "send_auth_error"
    /\ IF sock.srv = "open"
       THEN /\ s2c' = s2c \o AuthErrorWire(worker.aes_key)
            /\ events' = Append(events, "send_auth_response")
            /\ worker' = [worker EXCEPT !.pc = "close_rejected"]
       ELSE /\ worker' = Raised(worker)
            /\ UNCHANGED <<s2c, events>>
    /\ UNCHANGED <<running, clients, global_stats, require_auth, scenario, fc, tx, reg, iso, dec, rpc, ka, sock, c2s, tm, client, splice>>

\* failure branch: client_socket.close()
CloseRejected ==
    /\ worker.pc = "close_rejected"
    /\ sock' = [sock EXCEPT !.srv = "closed"]
    /\ c2s' = <<>>
    /\ events' = Append(events, "close")
    /\ worker' = [worker EXCEPT !.pc = "finally_stop"]
    /\ UNCHANGED <<running, clients, global_stats, require_auth, scenario, fc, tx, reg, iso, dec, rpc, ka, s2c, tm, client, splice>>

\* finally: if tunnel_manager: tunnel_manager.stop_tunnel()
FinallyStop ==
    /\ worker.pc = "finally_stop"
    /\ tm' = IF worker.tunnel_manager THEN [tm EXCEPT !.running = FALSE] ELSE tm
    /\ worker' = [worker EXCEPT !.pc = "finally_deregister"]
    /\ UNCHANGED <<running, clients, global_stats, require_auth, scenario, fc, tx, reg, iso, dec, rpc, ka, sock, s2c, c2s,
                   client, events, splice>>

\* a finally block that counts the tunnel down and leaves the entry in place
FinallyDeregister_KeepsEntry ==
    /\ worker.pc = "finally_deregister"
    /\ IF address \in DOMAIN clients
       THEN global_stats' = [global_stats EXCEPT !.active_tunnels = @ - 1]
       ELSE UNCHANGED global_stats
    /\ worker' = [worker EXCEPT !.pc = "finally_close"]
    /\ UNCHANGED <<running, clients, require_auth, scenario, fc, tx, reg, iso, dec, rpc, ka, sock, s2c, c2s, tm, client, splice, events>>

\* finally: if address in self.clients: active_tunnels -= 1; del self.clients[address]
FinallyDeregister ==
    /\ worker.pc = "finally_deregister"
    /\ IF address \in DOMAIN clients
       THEN /\ global_stats' = [global_stats EXCEPT !.active_tunnels = @ - 1]
            /\ clients' = <<>>
       ELSE UNCHANGED <<global_stats, clients>>
    /\ worker' = [worker EXCEPT !.pc = "finally_close"]
    /\ UNCHANGED <<running, require_auth, scenario, fc, tx, reg, iso, dec, rpc, ka, sock, s2c, c2s, tm, client, splice, events>>

\* finally: client_socket.close()
FinallyClose ==
    /\ worker.pc = "finally_close"
    /\ sock' = [sock EXCEPT !.srv = "closed"]
    /\ c2s' = <<>>
    /\ events' = IF sock.srv = "open" THEN Append(events, "close") ELSE events
    /\ worker' = [worker EXCEPT !.pc = "done"]
    /\ UNCHANGED <<running, clients, global_stats, require_auth, scenario, fc, tx, reg, iso, dec, rpc, ka, s2c, tm, client, splice>>

\* shutdown(): running = False, close the socket of every registry entry
shutdown ==
    /\ running
    /\ running' = FALSE
    /\ IF address \in DOMAIN clients
       THEN /\ sock' = [sock EXCEPT !.srv = "closed"]
            /\ c2s' = <<>>
       ELSE UNCHANGED <<sock, c2s>>
    /\ UNCHANGED <<clients, global_stats, require_auth, scenario, fc, tx, reg, iso, dec, rpc, ka, s2c, worker, tm,
                   client, events, splice>>

-----------------------------------------------------------------------------
(* The enhanced client's connect() (client/vpn_client_enhanced.py)          *)

ConnectResult(success, message, server_info) ==
    [success |-> success, message |-> message, server_info |-> server_info]

\* except Exception as e: self.socket.close(); return False, "Connection error: ...", {}
ConnectionError(c) ==
    [c EXCEPT !.pc = "returned",
              !.result = ConnectResult(FALSE, "Connection error", EmptyObj)]

\* Step 1: public_pem = self.socket.recv(2048); load_public_key(public_pem)
ClientRecvPublicKey ==
    /\ client.pc = "recv_pub"
    /\ s2c # <<>> \/ sock.srv = "closed"
    /\ LET n == IF Avail(s2c) < CLIENT_PEM_RECV THEN Avail(s2c) ELSE CLIENT_PEM_RECV
           public_pem == Take(s2c, n) IN
       /\ IF load_public_key(public_pem)
          THEN /\ client' = [client EXCEPT !.pc = "send_key"]
               /\ s2c' = Drop(s2c, n)
               /\ UNCHANGED sock
          ELSE /\ client' = ConnectionError(client)
               /\ s2c' = <<>>
               /\ sock' = [sock EXCEPT !.cli = "closed"]
    /\ UNCHANGED <<running, clients, global_stats, require_auth, scenario, fc, tx, reg, iso, dec, rpc, ka, c2s, worker, tm, events, splice>>

\* Step 2: aes_key = os.urandom(32); sendall(key_len.to_bytes(4, 'big')); sendall(key)
ClientSendKey ==
    /\ client.pc = "send_key"
    /\ \E k \in SessionKeys :
          LET encrypted_aes_key == encrypt_rsa(k) IN
          /\ c2s' = c2s \o <<LenChunk(encrypted_aes_key.len), encrypted_aes_key>>
          /\ client' = [client EXCEPT !.pc = "send_auth", !.aes_key = k]
    /\ UNCHANGED <<running, clients, global_stats, require_auth, scenario, fc, tx, reg, iso, dec, rpc, ka, sock, s2c, worker,
                   tm, events, splice>>

\* Step 3: sendall(auth_len.to_bytes(4, 'big')); sendall(encrypted_auth)
ClientSendAuth ==
    /\ client.pc = "send_auth"
    /\ LET encrypted_auth == encrypt_aes(client.auth_data, client.aes_key) IN
       c2s' = c2s \o <<LenChunk(encrypted_auth.len), encrypted_auth>>
    /\ client' = [client EXCEPT !.pc = "recv_resp_len"]
    /\ UNCHANGED <<running, clients, global_stats, require_auth, scenario, fc, tx, reg, iso, dec, rpc, ka, sock, s2c, worker,
                   tm, events, splice>>

\* Step 4, first loop: the 4 bytes of the response length
ClientRecvRespLen ==
    /\ client.pc = "recv_resp_len"
    /\ \E r \in RecvExact(s2c, 4, sock.srv = "closed") :
          /\ s2c' = r.rest
          /\ IF r.st = "eof"
             THEN client' = [client EXCEPT
                    !.pc = "returned",
                    !.result = ConnectResult(FALSE,
                        "Connection closed during response length receive", EmptyObj)]
             ELSE \E resp_len \in IntFromBytes(r.data) :
                    client' = [client EXCEPT !.pc = "recv_resp", !.resp_len = resp_len]
    /\ UNCHANGED <<running, clients, global_stats, require_auth, scenario, fc, tx, reg, iso, dec, rpc, ka, sock, c2s, worker,
                   tm, events, splice>>

\* what connect() returns for the decrypted response text
ConnectOutcome(c, pt) ==
    LET response == JsonLoads(pt) IN
    IF ~(response.ok /\ response.isdict /\ "status" \in DOMAIN response.obj
                     /\ "message" \in DOMAIN response.obj)
    THEN ConnectionError(c)
    ELSE IF response.obj["status"] = "success"
    THEN [c EXCEPT !.pc = "returned", !.connected = TRUE, !.keepalive_running = TRUE,
                   !.result = ConnectResult(TRUE, response.obj["message"],
                                  Get(response.obj, "server_info", EmptyObj))]
    ELSE [c EXCEPT !.pc = "returned",
                   !.result = ConnectResult(FALSE, response.obj["message"], EmptyObj)]

\* Step 4, second loop and the rest of connect(): receive resp_len bytes,
\* decrypt, json.loads, return
ClientRecvResp ==
    /\ client.pc = "recv_resp"
    /\ \E r \in RecvExact(s2c, client.resp_len, sock.srv = "closed") :
          IF r.st = "eof"
          THEN /\ client' = [client EXCEPT
                   !.pc = "returned",
                   !.result = ConnectResult(FALSE,
                       "Connection closed during response", EmptyObj)]
               /\ s2c' = r.rest
               /\ UNCHANGED sock
          ELSE \E d \in decrypt_aes(r.data, client.aes_key) :
                 /\ client' = IF d.ok THEN ConnectOutcome(client, d.pt)
                              ELSE ConnectionError(client)
                 /\ IF client'.connected
                    THEN /\ s2c' = r.rest
                         /\ UNCHANGED sock
                    ELSE /\ s2c' = <<>>
                         /\ sock' = [sock EXCEPT !.cli = "closed"]
    /\ UNCHANGED <<running, clients, global_stats, require_auth, scenario, fc, tx, reg, iso, dec, rpc, ka, c2s, worker, tm, events, splice>>

\* an exception inside connect() at any step (the 10 s socket timeout when the
\* server never accepts, or a network error): close the socket, return the error
ClientConnectError ==
    /\ client.pc \in {"recv_pub", "send_key", "send_auth", "recv_resp_len", "recv_resp"}
    /\ client.pc \in {"recv_pub", "recv_resp_len", "recv_resp"}
          => (worker.pc = "idle" /\ ~running)
    /\ client' = ConnectionError(client)
    /\ sock' = [sock EXCEPT !.cli = "closed"]
    /\ s2c' = <<>>
    /\ UNCHANGED <<running, clients, global_stats, require_auth, scenario, fc, tx, reg, iso, dec, rpc, ka, c2s, worker,
                   tm, events, splice>>

-----------------------------------------------------------------------------
(* What the peer sends after the handshake                                  *)

\* send_data: encrypted_data = encrypt_aes(data, aes_key);
\* sendall(data_len.to_bytes(4, 'big')); sendall(encrypted_data)
Record(data, key) ==
    LET encrypted_data == encrypt_aes(data, key) IN
    <<LenChunk(encrypted_data.len), encrypted_data>>

\* _keepalive_loop: json.dumps({'type': 'keepalive', 'timestamp': ..})
KeepaliveData == JsonDumps([type |-> "keepalive"], KEEPALIVE_JSON_LEN)

\* requests of the client API: send_data(text), request_statistics(),
\* forward_traffic(host, port, data), and the CONNECT command
HelloData == PlainText(<<"hello">>, 5)
StatsReqCmd == PlainText(<<"STATS_REQ">>, 9)
StatsReqJson == JsonDumps([type |-> "stats_request"], 25)
OtherTypeJson == JsonDumps([type |-> "other"], 17)
ForwardReq == PlainText(<<"FORWARD", "host", "80", "GET">>, 19)
ForwardBadPort == PlainText(<<"FORWARD", "host", "http", "GET">>, 21)
ConnectReq == PlainText(<<"CONNECT", "host", "443">>, 16)
\* "FORWARD:", "FORWARD:host" and "FORWARD:host:80"
ForwardNoFields == PlainText(<<"FORWARD", "">>, 8)
ForwardNoPort == PlainText(<<"FORWARD", "host">>, 12)
ForwardNoPayload == PlainText(<<"FORWARD", "host", "80">>, 15)
RawData == PlainText(<<"GET /">>, 5)

\* the plaintexts of the requests a peer sends as well-formed records
RequestInputs ==
    CASE scenario = "basic" -> {KeepaliveData, HelloData, ConnectReq}
      [] scenario = "framing" -> {KeepaliveData, HelloData, ConnectReq}
      [] scenario = "dispatch" ->
            {KeepaliveData, StatsReqJson, ForwardReq, ConnectReq, StatsReqCmd,
             HelloData, OtherTypeJson, JsonNonObject(6)}
      [] scenario = "forward" -> {ForwardReq, ForwardBadPort, ConnectReq}
      [] scenario = "splice" -> {ConnectReq, KeepaliveData}
      [] scenario = "close" -> {KeepaliveData, ConnectReq}
      [] scenario = "replies" ->
            {ForwardNoFields, ForwardNoPort, ForwardNoPayload, ConnectReq}

\* other byte sequences a peer writes in one go.
\* basic: complete records of 48 and of 20 bytes that were not made by
\* encrypt_aes under the session key (20 is no multiple of the block size), and
\* a length prefix that declares 10 MiB + 1.
\* framing: two records written back to back, a record cut off in its payload,
\* and a length prefix cut off after 2 bytes.
\* splice: an encrypted message without length prefix, as CONNECT mode reads it.
OtherInputs(key) ==
    CASE scenario = "basic" ->
            {<<LenChunk(48), Frag(48)>>, <<LenChunk(20), Frag(20)>>,
             <<LenChunk(MAX_MESSAGE + 1)>>}
      [] scenario = "framing" ->
            {Record(KeepaliveData, key) \o Record(HelloData, key),
             <<LenChunk(48), Frag(20)>>, <<Frag(2)>>}
      [] scenario = "splice" -> {<<encrypt_aes(RawData, key)>>}
      [] OTHER -> {}

\* the byte sequences a peer writes in one go
WireInputs(key) ==
    {Record(pt, key) : pt \in RequestInputs} \cup OtherInputs(key)

IsConnectRecord(c) == c.body.k = "aes" /\ c.body.pt.text[1] = "CONNECT"

\* the peer writes to the tunnel socket (at most one CONNECT per session)
PeerSend ==
    /\ client.pc = "returned" /\ client.connected
    /\ sock.cli = "open" /\ sock.srv = "open"
    /\ client.sent < MaxRecords
    /\ c2s = <<>> /\ s2c = <<>> /\ tm.pc \in {"none", "select"}
    /\ \E w \in WireInputs(client.aes_key) :
          /\ (\E i \in 1..Len(w) : IsConnectRecord(w[i]))
                => splice.t1 = "none"
          /\ c2s' = c2s \o w
    /\ client' = [client EXCEPT !.sent = @ + 1]
    /\ UNCHANGED <<running, clients, global_stats, require_auth, scenario, fc, tx, reg, iso, dec, rpc, ka, sock, s2c, worker,
                   tm, splice, events>>

\* the peer reads what the server has written to the tunnel socket
PeerRecv ==
    /\ client.pc = "returned" /\ client.connected
    /\ s2c # <<>>
    /\ s2c' = <<>>
    /\ UNCHANGED <<running, clients, global_stats, require_auth, scenario, fc, tx, reg, iso, dec, rpc, ka, sock, c2s, worker,
                   tm, client, splice, events>>

\* disconnect(): stop the keepalive, close the socket, drop the key
disconnect ==
    /\ client.pc = "returned" /\ client.connected
    /\ client' = [client EXCEPT !.connected = FALSE, !.keepalive_running = FALSE,
                                !.aes_key = ""]
    /\ sock' = [sock EXCEPT !.cli = "closed"]
    /\ s2c' = <<>>
    /\ UNCHANGED <<running, clients, global_stats, require_auth, scenario, fc, tx, reg, iso, dec, rpc, ka, c2s, worker,
                   tm, splice, events>>

-----------------------------------------------------------------------------
(* The dispatcher (server/tunnel_manager.py: _tunnel_loop and its handlers) *)

\* the loop has ended: finally: self.stop_tunnel()
Stopped(t) == [t EXCEPT !.pc = "stopped", !.running = FALSE]

\* a loop that breaks where the code continues
Continue_Breaks(t, line) ==
    [t EXCEPT !.pc = "stopped", !.running = FALSE, !.printed = line]

\* a loop body that ends without leaving the record it has handled
Continue_SameRecord(t, line) == [t EXCEPT !.printed = line]

\* "continue", or the end of the loop body: back to the head of the while
\* loop, after the pass printed `line`
Continue(t, line) ==
    [t EXCEPT !.pc = "select", !.req_len = 0, !.encrypted_data = Frag(0),
              !.printed = line]

\* while self.running fails, or select() raises on the closed socket
TunnelLoopExit ==
    /\ tm.pc = "select"
    /\ ~tm.running \/ sock.srv = "closed"
    /\ tm' = Stopped(tm)
    /\ UNCHANGED <<running, clients, global_stats, require_auth, scenario, fc, tx, reg, iso, dec, rpc, ka, sock, s2c, c2s,
                   worker, client, splice, events>>

\* what the dispatcher does with a declared length: "continue" without reading
\* the payload when it is above the limit, else go on to receive the payload
AfterLength(t, req_len) ==
    IF req_len > MAX_MESSAGE
    THEN Continue(t, "Message too large")
    ELSE [t EXCEPT !.pc = "recv_data", !.req_len = req_len]

\* select() reports the socket readable; the loop that receives the 4-byte prefix
TunnelRecvLen ==
    /\ tm.pc = "select" /\ tm.running /\ sock.srv = "open"
    /\ c2s # <<>> \/ sock.cli = "closed"
    /\ \/ \E r \in RecvExact(c2s, 4, sock.cli = "closed") :
             /\ c2s' = r.rest
             /\ IF r.st = "eof"
                THEN tm' = Stopped(tm)
                ELSE \E req_len \in IntFromBytes(r.data) :
                        tm' = AfterLength(tm, req_len)
       \/ \* socket.timeout after 1 s with fewer than 4 bytes: continue
          /\ Avail(c2s) < 4 /\ sock.cli = "open"
          /\ c2s' = <<>>
          /\ tm' = Continue(tm, "Recv timeout")
    /\ UNCHANGED <<running, clients, global_stats, require_auth, scenario, fc, tx, reg, iso, dec, rpc, ka, sock, s2c,
                   worker, client, splice, events>>

\* the loop that receives req_len bytes of encrypted data
TunnelRecvData ==
    /\ tm.pc = "recv_data"
    /\ IF sock.srv = "closed"
       THEN /\ tm' = Stopped(tm)
            /\ UNCHANGED c2s
       ELSE \/ \E r \in RecvExact(c2s, tm.req_len, sock.cli = "closed") :
                  /\ c2s' = r.rest
                  /\ IF r.st = "eof"
                     THEN tm' = Continue(tm, "Incomplete data")
                     ELSE tm' = [tm EXCEPT !.pc = "handle", !.encrypted_data = r.data]
            \/ \* socket.timeout after 1 s with the payload incomplete: continue
               /\ Avail(c2s) < tm.req_len /\ sock.cli = "open"
               /\ c2s' = <<>>
               /\ tm' = Continue(tm, "Recv timeout")
    /\ UNCHANGED <<running, clients, global_stats, require_auth, scenario, fc, tx, reg, iso, dec, rpc, ka, sock, s2c,
                   worker, client, splice, events>>

\* request_data.startswith(cmd + ':')
StartsWithCmd(pt, cmd) == pt.form = "text" /\ Len(pt.text) >= 2 /\ pt.text[1] = cmd

\* the handler _tunnel_loop picks for a decrypted request
Classify(request_data) ==
    LET msg == JsonLoads(request_data)
        type == IF msg.ok /\ msg.isdict THEN Get(msg.obj, "type", "") ELSE "" IN
    IF type = "keepalive" THEN "keepalive"
    ELSE IF type = "stats_request" THEN "stats"
    ELSE IF StartsWithCmd(request_data, "FORWARD") THEN "forward"
    ELSE IF StartsWithCmd(request_data, "CONNECT") THEN "connect"
    ELSE IF request_data.form = "text" /\ request_data.text[1] = "STATS_REQ" THEN "stats"
    ELSE "data"

\* int(parts[2]) succeeds
IsPort(p) == p \in {"1", "80", "443"}

\* a reply sent as sendall(len.to_bytes(4, 'big')); sendall(encrypted)
Framed(pt, key) ==
    LET encrypted == encrypt_aes(pt, key) IN <<LenChunk(encrypted.len), encrypted>>

\* a reply sent as client_socket.send(encrypted)
Unframed(pt, key) == <<encrypt_aes(pt, key)>>

KeepaliveAck == JsonDumps([status |-> "ok", type |-> "keepalive_ack"],
                          KEEPALIVE_ACK_JSON_LEN)
DataAck(data) == JsonDumps([status |-> "ack", size |-> data.n], DATA_ACK_JSON_LEN)
StatsReply(stats) == JsonDumps(stats, 100)
ForwardSuccess == JsonDumps([status |-> "success", data |-> "response"], 50)
ForwardError_AsSuccess == JsonDumps([status |-> "success", data |-> "message"], 50)

\* the reply of _handle_forward_request's except clause
ForwardError == JsonDumps([status |-> "error", error |-> "message"], 50)
ConnectOk == PlainText(<<"CONNECT_OK">>, 10)
ConnectErrorMsg == PlainText(<<"CONNECT_ERROR", "message">>, 30)

\* an upstream socket that no code path closes: it stays open until the
\* garbage collector finalizes the socket object, which may have happened or not
Unclosed == {"open", "closed"}

\* _handle_forward_request(request) when the upstream outcome is `up`: the
\* bytes written to the client socket, the stats afterwards, and the possible
\* states of dest_socket when the handler returns ("none": never created)
HandleForward(request, up, t) ==
    LET parts == request.text IN
    IF Len(parts) < 3 THEN [wire |-> <<>>, stats |-> t.stats, dest |-> {"none"}]
    ELSE IF ~IsPort(parts[3])
    THEN [wire |-> Framed(ForwardError, t.aes_key), stats |-> t.stats,
          dest |-> {"none"}]
    ELSE IF up = "connect_fails"
    THEN [wire |-> Framed(ForwardError, t.aes_key), stats |-> t.stats,
          dest |-> Unclosed]
    ELSE LET sent == [t.stats EXCEPT !.connections = @ + 1,
                         !.bytes_sent = IF Len(parts) > 3 THEN @ + 3 ELSE @,
                         !.packets_sent = IF Len(parts) > 3 THEN @ + 1 ELSE @] IN
         IF up = "recv_fails"
         THEN [wire |-> Framed(ForwardError, t.aes_key), stats |-> sent,
               dest |-> Unclosed]
         ELSE [wire |-> Framed(ForwardSuccess, t.aes_key),
               stats |-> [sent EXCEPT !.bytes_received = @ + 8,
                                      !.packets_received = @ + 1],
               dest |-> {"closed"}]

\* decrypt the complete record, classify it, run the handler
TunnelHandle ==
    /\ tm.pc = "handle"
    /\ \E d \in decrypt_aes(tm.encrypted_data, tm.aes_key) :
       \E up \in {"ok", "connect_fails", "recv_fails"} :
       \E dest \in {"none", "open", "closed"} :
       LET kind == Classify(d.pt)
           fwd == HandleForward(d.pt, up, tm)
           connected == kind = "connect" /\ up = "ok" /\ Len(d.pt.text) >= 3
                            /\ IsPort(d.pt.text[3])
           wire == CASE kind = "keepalive" -> Framed(KeepaliveAck, tm.aes_key)
                     [] kind = "stats" -> Framed(StatsReply(tm.stats), tm.aes_key)
                     [] kind = "forward" -> fwd.wire
                     [] kind = "connect" ->
                           IF connected THEN Unframed(ConnectOk, tm.aes_key)
                           ELSE Unframed(ConnectErrorMsg, tm.aes_key)
                     [] OTHER -> Framed(DataAck(d.pt), tm.aes_key)
           stats == CASE kind = "forward" -> fwd.stats
                      [] kind = "connect" /\ connected ->
                            [tm.stats EXCEPT !.connections = @ + 1]
                      [] kind = "data" -> [tm.stats EXCEPT !.packets_received = @ + 1]
                      [] OTHER -> tm.stats
           raises == d.ok /\ wire # <<>> /\ sock.srv = "closed"
           \* dest_socket of a FORWARD when its handling has ended: a send of
           \* the reply that raises skips dest_socket.close()
           dests == IF ~d.ok \/ kind # "forward" THEN {tm.fwd_dest}
                    ELSE IF raises /\ fwd.dest # {"none"} THEN Unclosed
                    ELSE fwd.dest
       IN
       /\ (~d.ok \/ kind \notin {"forward", "connect"}) => up = "ok"
       /\ dest \in dests
       /\ (kind = "connect") => up # "recv_fails"
       /\ IF ~d.ok
          THEN \* decryption failed: continue
               /\ tm' = Continue(tm, "Decryption failed")
               /\ UNCHANGED <<s2c, splice>>
          ELSE IF raises
          THEN \* the send raises; it ends the loop (a handler called for a JSON
               \* message raises into "except: pass", and _handle_data_packet
               \* counts the packet before its own send raises)
               /\ tm' = [Stopped(tm) EXCEPT !.fwd_dest = dest, !.stats =
                            IF d.pt.form = "json" /\ kind \in {"keepalive", "stats"}
                            THEN [tm.stats EXCEPT !.packets_received = @ + 1]
                            ELSE stats]
               /\ UNCHANGED <<s2c, splice>>
          ELSE /\ tm' = [Continue(tm, "Decrypted request") EXCEPT
                            !.stats = stats, !.fwd_dest = dest]
               /\ s2c' = s2c \o wire
               /\ splice' = IF connected
                            THEN [splice EXCEPT !.t1 = "run", !.t2 = "run",
                                                !.dest = "open"]
                            ELSE splice
    /\ UNCHANGED <<running, clients, global_stats, require_auth, scenario, fc, tx, reg, iso, dec, rpc, ka, sock, c2s,
                   worker, client, events>>

-----------------------------------------------------------------------------
(* Two runs of the dispatcher that differ in the session key only: the peer *)
(* does the same in both, which for a request means the same plaintext,     *)
(* encrypted under the key of the run, and for bytes it did not encrypt     *)
(* under the session key means the same bytes.                              *)

\* records the peer sends in a run
MaxIsoRecords == 3

\* print(f"[TUNNEL] ...")
LogLine(line, n, text) == [line |-> line, n |-> n, text |-> text]

\* one pass of _tunnel_loop over the complete record c in the run with the
\* session key `key`: the possible outcomes, as the run's state afterwards
LoopPass(r, c, key) ==
    {LET kind == Classify(d.pt)
         received == <<LogLine("Expecting", c.len, <<>>),
                       LogLine("Received complete encrypted message", c.len, <<>>)>>
     IN
     IF ~d.ok
     THEN [r EXCEPT !.log = @ \o received
                        \o <<LogLine("Decryption failed", 0, <<>>),
                             LogLine("Encrypted data length", c.len, <<>>)>>]
     ELSE [r EXCEPT
             !.log = @ \o received \o <<LogLine("Decrypted request", 0, d.pt.text)>>,
             !.stats = IF kind = "data" THEN [@ EXCEPT !.packets_received = @ + 1]
                       ELSE @,
             !.replies = IF kind = "stats" THEN Append(@, StatsReply(r.stats)) ELSE @]
     : d \in decrypt_aes(c, key)}

\* the requests of these runs: keepalive, data and statistics
IsoRequests == {KeepaliveData, HelloData, StatsReqCmd}

\* both runs take the outcome `o` of their pass
BothRuns(o) ==
    /\ iso' = [iso EXCEPT !.run = o, !.sent = @ + 1]
    /\ UNCHANGED <<session_vars, fc, tx, reg, dec, rpc, ka>>

\* the peer sends a request, encrypted under the session key of the run
IsoRequest ==
    /\ iso.sent < MaxIsoRecords
    /\ \E pt \in IsoRequests :
       \E o \in [IsoKeys -> UNION {LoopPass(iso.run[k], encrypt_aes(pt, k), k) : k \in IsoKeys}] :
          /\ \A k \in IsoKeys : o[k] \in LoopPass(iso.run[k], encrypt_aes(pt, k), k)
          /\ BothRuns(o)

\* the peer sends a record of 48 bytes that it did not encrypt under the
\* session key: the same bytes in both runs
IsoForeign ==
    /\ iso.sent < MaxIsoRecords
    /\ \E o \in [IsoKeys -> UNION {LoopPass(iso.run[k], Frag(48), k) : k \in IsoKeys}] :
          /\ \A k \in IsoKeys : o[k] \in LoopPass(iso.run[k], Frag(48), k)
          /\ BothRuns(o)

NextIso == IsoRequest \/ IsoForeign

-----------------------------------------------------------------------------
(* CONNECT mode (server/tunnel_manager.py: _forward_bidirectional)          *)

\* forward_to_dest has ended: finally: dest_socket.close(). dest_socket has no
\* timeout, and forward_to_client may be inside dest_socket.recv() at that
\* moment: the close races with the recv. Either forward_to_client's recv
\* raises on the closed socket (it stays "run" and ends at its next pass), or
\* it stays blocked in the call, which only the upstream host can end
DestDone(sp) ==
    {[sp EXCEPT !.t1 = "done", !.dest = "closed", !.t2 = x] :
        x \in IF sp.t2 = "run" /\ sp.pending = <<>> /\ ~sp.upstream_closed
              THEN {"run", "blocked"} ELSE {sp.t2}}

\* forward_to_dest: one pass of "while self.running: recv, decrypt, send"
forward_to_dest ==
    /\ splice.t1 = "run"
    /\ IF sock.srv = "closed"
       THEN \* recv raises on the closed socket
            /\ splice' \in DestDone(splice)
            /\ UNCHANGED <<c2s, tm>>
       ELSE IF c2s = <<>>
       THEN \* b'' at end of stream, or socket.timeout after 1 s
            /\ splice' \in DestDone(splice)
            /\ UNCHANGED <<c2s, tm>>
       ELSE LET n == IF Avail(c2s) < DEFAULT_BUFFER_SIZE THEN Avail(c2s)
                     ELSE DEFAULT_BUFFER_SIZE
                encrypted_data == Take(c2s, n) IN
            \E d \in decrypt_aes(encrypted_data, tm.aes_key) :
               /\ c2s' = Drop(c2s, n)
               /\ IF d.ok /\ splice.dest = "open"
                  THEN /\ tm' = [tm EXCEPT !.stats.bytes_sent = @ + d.pt.n,
                                           !.stats.packets_sent = @ + 1]
                       /\ splice' \in IF tm.running THEN {splice} ELSE DestDone(splice)
                  ELSE /\ splice' \in DestDone(splice)
                       /\ UNCHANGED tm
    /\ UNCHANGED <<running, clients, global_stats, require_auth, scenario, fc, tx, reg, iso, dec, rpc, ka, sock, s2c,
                   worker, client, events>>

\* a str, held as the bytes of its UTF-8 encoding
StrOfBytes(b) == [form |-> "text", obj |-> EmptyObj, text |-> b, n |-> Len(b)]

\* data.decode('utf-8', errors='ignore'), as the bytes of the resulting str: an
\* ASCII byte and a well-formed two-byte sequence are kept, any other byte is
\* dropped (the chunks of UpstreamChunks hold no longer sequences)
RECURSIVE decode_utf8_ignore(_)
decode_utf8_ignore(data) ==
    IF data = <<>> THEN <<>>
    ELSE IF data[1] < 128 THEN <<data[1]>> \o decode_utf8_ignore(Tail(data))
    ELSE IF data[1] \in 194..223 /\ Len(data) >= 2 /\ data[2] \in 128..191
    THEN <<data[1], data[2]>> \o decode_utf8_ignore(Tail(Tail(data)))
    ELSE decode_utf8_ignore(Tail(data))

RECURSIVE Flatten(_)
Flatten(chunks) ==
    IF chunks = <<>> THEN <<>> ELSE Head(chunks) \o Flatten(Tail(chunks))

\* dest_socket.recv(DEFAULT_BUFFER_SIZE) with bytes waiting: what the upstream
\* host sent first, or everything it has sent so far in one piece
RecvUpstream(pending) ==
    {[data |-> Head(pending), rest |-> Tail(pending)],
     [data |-> Flatten(pending), rest |-> <<>>]}

\* forward_to_client: one pass of "while self.running: recv, encrypt, send";
\* when the loop ends: finally: self.client_socket.close()
forward_to_client ==
    /\ splice.t2 \in {"run", "blocked"}
    /\ \/ \* data from upstream: encrypt it and send it unframed
          /\ splice.dest = "open" \/ splice.t2 = "blocked"
          /\ splice.pending # <<>> /\ sock.srv = "open"
          /\ \E r \in RecvUpstream(splice.pending) :
                /\ s2c' = s2c \o Unframed(StrOfBytes(decode_utf8_ignore(r.data)),
                                          tm.aes_key)
                /\ tm' = [tm EXCEPT !.stats.bytes_received = @ + Len(r.data),
                                    !.stats.packets_received = @ + 1]
                /\ splice' = [splice EXCEPT !.pending = r.rest,
                                 !.t2 = IF tm.running THEN "run" ELSE "done"]
          /\ sock' = IF tm.running THEN sock ELSE [sock EXCEPT !.srv = "closed"]
          /\ c2s' = IF tm.running THEN c2s ELSE <<>>
       \/ \* b'' from upstream, recv raises on the closed dest_socket, or the
          \* send raises on the closed client socket
          /\ \/ splice.dest = "closed" /\ splice.t2 = "run"
             \/ splice.pending = <<>> /\ splice.upstream_closed
             \/ splice.pending # <<>> /\ sock.srv = "closed"
          /\ splice' = [splice EXCEPT !.t2 = "done"]
          /\ sock' = [sock EXCEPT !.srv = "closed"]
          /\ c2s' = <<>>
          /\ UNCHANGED <<s2c, tm>>
    /\ UNCHANGED <<running, clients, global_stats, require_auth, scenario, fc, tx, reg, iso, dec, rpc, ka,
                   worker, client, events>>

\* what the upstream host sends in one piece: the bytes "Hi", and the same with
\* the byte 0xFF between them
UpstreamChunks ==
    IF scenario = "splice" THEN {<<72, 105>>, <<72, 255, 105>>} ELSE {<<72, 105>>}

\* the upstream host sends data
UpstreamSend ==
    /\ splice.dest = "open" \/ splice.t2 = "blocked"
    /\ ~splice.upstream_closed
    /\ splice.upstream_sent < MaxUpstream
    /\ \E chunk \in UpstreamChunks :
          splice' = [splice EXCEPT !.pending = Append(@, chunk),
                                   !.upstream_sent = @ + 1]
    /\ UNCHANGED <<running, clients, global_stats, require_auth, scenario, fc, tx, reg, iso, dec, rpc, ka, sock, s2c, c2s,
                   worker, tm, client, events>>

\* the upstream host closes the connection
UpstreamClose ==
    /\ splice.dest = "open" \/ splice.t2 = "blocked"
    /\ ~splice.upstream_closed
    /\ splice' = [splice EXCEPT !.upstream_closed = TRUE]
    /\ UNCHANGED <<running, clients, global_stats, require_auth, scenario, fc, tx, reg, iso, dec, rpc, ka, sock, s2c, c2s,
                   worker, tm, client, events>>

-----------------------------------------------------------------------------

Next ==
    \/ Accept
    \/ SendPublicKey
    \/ RecvSessionKey
    \/ RecvCredentials
    \/ Validate
    \/ SendAuthOk
    \/ Register
    \/ CountTunnel
    \/ StartTunnel
    \/ WaitTunnel
    \/ SendAuthError
    \/ CloseRejected
    \/ FinallyStop
    \/ FinallyDeregister
    \/ FinallyClose
    \/ shutdown
    \/ ClientRecvPublicKey
    \/ ClientSendKey
    \/ ClientSendAuth
    \/ ClientRecvRespLen
    \/ ClientRecvResp
    \/ ClientConnectError
    \/ PeerSend
    \/ PeerRecv
    \/ disconnect
    \/ TunnelLoopExit
    \/ TunnelRecvLen
    \/ TunnelRecvData
    \/ TunnelHandle
    \/ forward_to_dest
    \/ forward_to_client
    \/ UpstreamSend
    \/ UpstreamClose

Spec == Init /\ [][Next]_vars

\* the same system with the peer using the inputs of the other scenarios
InitFraming == InitWith("framing")
SpecFraming == InitFraming /\ [][Next]_vars

InitDispatch == InitWith("dispatch")
SpecDispatch == InitDispatch /\ [][Next]_vars

InitForward == InitWith("forward")
SpecForward == InitForward /\ [][Next]_vars

InitSplice == InitWith("splice")
SpecSplice == InitSplice /\ [][Next]_vars

InitReplies == InitWith("replies")
SpecReplies == InitReplies /\ [][Next]_vars

\* a flow controller, constructed with any of the initial windows, under any
\* sequence of calls
InitFlow ==
    /\ Quiet("flow")
    /\ fc \in {Uncalled(FlowController(w)) : w \in InitialWindows}
    /\ InitTx /\ InitReg /\ InitIso /\ InitDec /\ InitRpc /\ InitKa
SpecFlow == InitFlow /\ [][NextFlow]_vars

\* the writers of the client's socket, or of the server's socket, under any
\* interleaving
InitWriters ==
    /\ Quiet("writers")
    /\ tx \in {Unwritten(side) : side \in {"client", "server"}}
    /\ InitFc /\ InitReg /\ InitIso /\ InitDec /\ InitRpc /\ InitKa
SpecWriters == InitWriters /\ [][NextWriters]_vars

\* the workers of one server on its registry, under any interleaving
InitRegistry == Quiet("registry") /\ InitFc /\ InitTx /\ InitReg /\ InitIso /\ InitDec /\ InitRpc /\ InitKa
SpecRegistry == InitRegistry /\ [][NextRegistry]_vars

\* two dispatchers with different session keys and the same peer
InitIsolation == Quiet("isolation") /\ InitFc /\ InitTx /\ InitReg /\ InitIso /\ InitDec /\ InitRpc /\ InitKa
SpecIsolation == InitIsolation /\ [][NextIso]_vars

\* one call of decrypt_aes on any of the inputs
InitDecrypt ==
    /\ Quiet("decrypt")
    /\ dec \in {Undecrypted(in) : in \in DecryptInputs}
    /\ InitFc /\ InitTx /\ InitReg /\ InitIso /\ InitRpc /\ InitKa
SpecDecrypt == InitDecrypt /\ [][NextDecrypt]_vars

\* the callers of send_data on one connection, under any interleaving
InitCallers == Quiet("callers") /\ InitFc /\ InitTx /\ InitReg /\ InitIso /\ InitDec /\ InitRpc /\ InitKa
SpecCallers == InitCallers /\ [][NextCallers]_vars

\* one client object connecting and disconnecting in turn, with its
\* keepalive threads
InitKeepalive == Quiet("keepalive") /\ InitFc /\ InitTx /\ InitReg /\ InitIso /\ InitDec /\ InitRpc /\ InitKa
SpecKeepalive == InitKeepalive /\ [][NextKeepalive]_vars

\* the threads of the server: each of them, while it can take a step, takes one
WorkerStep ==
    \/ Accept \/ SendPublicKey \/ RecvSessionKey \/ RecvCredentials \/ Validate
    \/ SendAuthOk \/ Register \/ CountTunnel \/ StartTunnel \/ WaitTunnel
    \/ SendAuthError \/ CloseRejected \/ FinallyStop \/ FinallyDeregister
    \/ FinallyClose

DispatcherStep == TunnelLoopExit \/ TunnelRecvLen \/ TunnelRecvData \/ TunnelHandle

\* the splice scenario with the server's threads scheduled fairly; the peer,
\* the upstream host and the operator's shutdown are under no obligation
FairSpecSplice ==
    /\ SpecSplice
    /\ WF_vars(WorkerStep) /\ WF_vars(DispatcherStep)
    /\ WF_vars(forward_to_dest) /\ WF_vars(forward_to_client)

\* a server that requires authentication and the enhanced client, with
\* accepted or rejected credentials; the client keeps the session alive, asks
\* for a CONNECT, or disconnects; the server's threads are scheduled fairly
InitClose ==
    /\ InitWith("close")
    /\ require_auth
    /\ client.auth_data \in {AuthData("student", "secure123"),
                             AuthData("student", "admin123")}
SpecClose == InitClose /\ [][Next]_vars
FairSpecClose ==
    /\ SpecClose
    /\ WF_vars(WorkerStep) /\ WF_vars(DispatcherStep)
    /\ WF_vars(forward_to_dest) /\ WF_vars(forward_to_client)


-----------------------------------------------------------------------------
(* Properties                                                               *)

Range(s) == {s[i] : i \in 1..Len(s)}

IsPrefix(a, b) == Len(a) <= Len(b) /\ a = SubSeq(b, 1, Len(a))

\* the four handshake steps of the server, in the order of _handle_client
HandshakeOrder ==
    <<"send_public_key", "recv_session_key", "recv_credentials", "send_auth_response">>

\* the handshake steps the worker has performed so far, in order
HandshakeEvents == SelectSeq(events, LAMBDA e : e \in Range(HandshakeOrder))

\* the worker has received credentials and chosen a branch for them
Decided == "recv_credentials" \in Range(events) /\ worker.pc # "validate"

\* the worker took the failure branch
Rejected == Decided /\ ~worker.valid

\* the credentials the peer put on the wire are a pair of the credential store
Acceptable ==
    LET a == client.auth_data IN
    /\ a.form = "json"
    /\ {"username", "password"} \subseteq DOMAIN a.obj
    /\ a.obj["username"] \in DOMAIN VALID_CREDENTIALS
    /\ VALID_CREDENTIALS[a.obj["username"]] = a.obj["password"]

\* the error auth response as a length-prefixed record would carry it
ExpectedErrorResponse ==
    encrypt_aes(JsonDumps([status |-> "error", message |-> MsgAuthFailed],
                          AUTH_ERR_JSON_LEN), client.aes_key)

\* C1: when the server has rejected the credentials and sent its error
\* response, and connect() has returned, connect's result is exactly
\* (False, "Authentication failed: Invalid credentials", {})
C1_RejectedConnectResult ==
    (client.pc = "returned" /\ Rejected /\ "send_auth_response" \in Range(events))
        => client.result = ConnectResult(FALSE, MsgAuthFailed, EmptyObj)

\* C2: once the worker has rejected the credentials, the peer has no registry
\* entry, active_tunnels is unchanged, no TunnelManager exists or runs, and the
\* socket is closed only after the auth response was sent; when the worker is
\* done it has sent the response and then closed the socket
C2_RejectionLeavesNoSession ==
    Rejected =>
        /\ address \notin DOMAIN clients
        /\ global_stats.active_tunnels = 0
        /\ tm.pc = "none" /\ ~tm.running /\ ~worker.tunnel_manager
        /\ "start_tunnel" \notin Range(events)
        /\ IsPrefix(events, HandshakeOrder \o <<"close">>)
        /\ sock.srv = "closed" <=> "close" \in Range(events)
        /\ worker.pc = "done" => events = HandshakeOrder \o <<"close">>

\* a rejected connection whose worker has finished
C2_Witness ==
    Rejected /\ worker.pc = "done" /\ sock.srv = "closed"

\* C3: when connect() returns success, its message is "VPN tunnel established -
\* Full forwarding enabled" and the returned server_info holds the features
\* list, the cipher name and the key-exchange name
C3_SuccessServerInfo ==
    (client.pc = "returned" /\ client.result.success) =>
        /\ client.result.message = MsgEstablished
        /\ {"features", "encryption", "key_exchange"}
                \subseteq DOMAIN client.result.server_info
        /\ client.result.server_info["features"]
                = <<"tunneling", "flow_control", "encryption">>
        /\ client.result.server_info["encryption"] = "AES-256-CBC"
        /\ client.result.server_info["key_exchange"] = "RSA-2048-OAEP"

\* C4: in every state the registry has an entry for the peer exactly when the
\* peer's connection is open on the server side and the worker has validated
\* the credentials and sent the success response
C4_RegistryIffOpenSession ==
    (address \in DOMAIN clients)
        <=> (sock.srv = "open" /\ worker.valid
                /\ "send_auth_response" \in Range(events))

\* C5: the handshake steps the worker performs are a prefix of send-public-key,
\* receive-session-key, receive-credentials, send-auth-response; a registry
\* entry, a TunnelManager, a running dispatcher and any processing of a tunnel
\* record exist only after all four steps with the credentials validated; a
\* worker that ends without having sent an auth response leaves no session and
\* a closed socket
C5_HandshakeOrder ==
    /\ IsPrefix(HandshakeEvents, HandshakeOrder)
    /\ (\/ address \in DOMAIN clients
        \/ worker.tunnel_manager
        \/ tm.pc # "none" \/ tm.running
        \/ tm.printed # "" \/ tm.stats # NoStats
        \/ splice.t1 # "none"
        \/ "start_tunnel" \in Range(events))
          => (worker.valid /\ HandshakeEvents = HandshakeOrder)
    /\ "start_tunnel" \in Range(events)
          => IsPrefix(HandshakeOrder \o <<"start_tunnel">>, events)
    /\ (worker.pc \in {"finally_stop", "finally_deregister", "finally_close", "done"}
            /\ "send_auth_response" \notin Range(events))
          => /\ address \notin DOMAIN clients
             /\ tm.pc = "none" /\ ~tm.running
             /\ global_stats.active_tunnels = 0
             /\ worker.pc = "done" => sock.srv = "closed"

\* the dispatcher handles a record of a validated connection
C5_Witness ==
    tm.pc = "handle" /\ worker.valid /\ HandshakeEvents = HandshakeOrder

\* a length prefix followed by a message of exactly the declared length
IsFrame(m) ==
    /\ Len(m) = 2
    /\ m[1].t = "len" /\ m[2].t = "blob" /\ m[1].val = m[2].len

\* what a step has appended to a stream
Appended(old, new) == SubSeq(new, Len(old) + 1, Len(new))

\* C6: every step in which the server sends its public key or its auth
\* response, and every step in which the client sends the wrapped session key
\* or the credentials, appends to the stream a 4-byte length prefix followed by
\* exactly that many bytes
C6_HandshakeFramed ==
    [][/\ (events' # events
            /\ events'[Len(events')] \in {"send_public_key", "send_auth_response"})
          => IsFrame(Appended(s2c, s2c'))
       /\ (client.pc \in {"send_key", "send_auth"} /\ c2s' # c2s
            /\ client'.pc \in {"send_auth", "recv_resp_len"})
          => IsFrame(Appended(c2s, c2s'))]_vars


\* C7: the worker accepts exactly when the credentials on the wire are a JSON
\* object whose password equals the stored secret of its username; for every
\* other payload (unknown username, wrong password, text that is not JSON, JSON
\* that is not an object) it is in the failure branch, and what it has sent,
\* before the client has read any of it, is the one encrypted response with
\* status "error" and message "Authentication failed: Invalid credentials"
C7_UniformRejection ==
    /\ Decided => (worker.valid <=> Acceptable)
    /\ Decided /\ ~Acceptable
          => worker.pc \in {"send_auth_error", "close_rejected", "finally_stop",
                            "finally_deregister", "finally_close", "done"}
    /\ (Rejected /\ worker.pc = "close_rejected" /\ client.pc = "recv_resp_len")
          => /\ s2c = <<ExpectedErrorResponse>>
             /\ \E d \in decrypt_aes(s2c[1], client.aes_key) :
                   /\ d.ok
                   /\ d.pt.obj = [status |-> "error", message |-> MsgAuthFailed]

\* the error response is on the wire for a username the store does not know
C7_Witness ==
    /\ Rejected /\ worker.pc = "close_rejected" /\ client.pc = "recv_resp_len"
    /\ client.auth_data = AuthData("nobody", "secure123")

\* C8: when REQUIRE_AUTH is false every handshake that reaches step 4 is
\* accepted; when it is true exactly the pairs of VALID_CREDENTIALS are
C8_RequireAuthSwitch ==
    Decided => IF require_auth THEN (worker.valid <=> Acceptable)
                               ELSE worker.valid

\* C9: once the dispatcher has read a length prefix that declares more than
\* 10 MiB, it does nothing more than end its loop: it starts no further receive
\* and finishes no further pass
C9_OversizeTerminates ==
    [][tm.printed = "Message too large"
          => (tm'.pc \in {"select", "stopped"} /\ tm'.printed = tm.printed)]_vars

\* the complete record the dispatcher holds cannot be decrypted
Undecryptable ==
    tm.pc = "handle"
        /\ \A d \in decrypt_aes(tm.encrypted_data, tm.aes_key) : ~d.ok

\* C10: the step in which the dispatcher fails to decrypt a complete record
\* writes nothing to the client, leaves the registry, the sockets, the running
\* flag, the statistics and the splice state as they were, and puts the
\* dispatcher back at the head of its loop; a record that cannot be decrypted
\* always ends in such a step; and a keepalive handled right after a failed
\* decryption is answered with the keepalive acknowledgement
C10_DecryptFailureContinues ==
    [][/\ (tm.pc = "handle" /\ tm'.pc = "select"
              /\ tm'.printed = "Decryption failed")
            => /\ s2c' = s2c /\ clients' = clients /\ sock' = sock
               /\ global_stats' = global_stats /\ splice' = splice
               /\ tm' = [tm EXCEPT !.pc = "select", !.req_len = 0,
                                   !.encrypted_data = Frag(0),
                                   !.printed = "Decryption failed"]
       /\ (Undecryptable /\ tm'.pc # "handle")
            => (tm'.pc = "select" /\ tm'.printed = "Decryption failed")
       /\ (tm.pc = "handle" /\ tm.printed = "Decryption failed"
              /\ tm.encrypted_data = encrypt_aes(KeepaliveData, tm.aes_key)
              /\ sock.srv = "open" /\ tm'.pc # "handle")
            => /\ s2c' = s2c \o Framed(KeepaliveAck, tm.aes_key)
               /\ tm'.pc = "select" /\ tm'.running = tm.running]_vars

\* after a failed decryption the session is intact and the dispatcher holds
\* the next complete record, a keepalive
C10_Witness ==
    /\ tm.printed = "Decryption failed" /\ tm.pc = "handle" /\ tm.running
    /\ tm.encrypted_data = encrypt_aes(KeepaliveData, tm.aes_key)
    /\ address \in DOMAIN clients /\ sock.srv = "open"


\* C11: the dispatcher starts to receive a payload only after it took exactly
\* 4 prefix bytes off the stream, and holds a record for decryption only after
\* it took exactly the declared number of payload bytes; when the peer has
\* closed and fewer than 4 prefix bytes are there, the loop ends without a
\* reply; when the peer has closed in the middle of a payload, the pass ends
\* without decrypting or replying, and after such a pass the dispatcher does
\* nothing but end its loop
C11_CompleteOrNothing ==
    [][/\ (tm.pc = "select" /\ tm'.pc = "recv_data")
            => (Avail(c2s) >= 4 /\ Avail(c2s') = Avail(c2s) - 4)
       /\ (tm.pc = "recv_data" /\ tm'.pc = "handle")
            => /\ Avail(c2s) >= tm.req_len
               /\ Avail(c2s') = Avail(c2s) - tm.req_len
               /\ tm'.encrypted_data.len = tm.req_len
       /\ tm'.pc = "handle"
            => /\ tm.pc \in {"recv_data", "handle"}
               /\ tm'.encrypted_data.len = tm'.req_len
       /\ (tm.pc = "select" /\ tm'.pc # "select" /\ sock.srv = "open"
              /\ sock.cli = "closed" /\ Avail(c2s) < 4)
            => (tm'.pc = "stopped" /\ s2c' = s2c)
       /\ (tm.pc = "recv_data" /\ tm'.pc # "recv_data" /\ Avail(c2s) < tm.req_len)
            => /\ tm'.pc \in {"select", "stopped"}
               /\ s2c' = s2c /\ tm'.stats = tm.stats
       /\ (tm.pc = "select" /\ tm.printed = "Incomplete data")
            => /\ c2s = <<>> /\ sock.cli = "closed"
               /\ tm'.pc \in {"select", "stopped"}
               /\ tm'.printed = tm.printed]_vars

\* the peer closed in the middle of a payload and the loop has ended, with no
\* shutdown and nothing written to the client
C11_Witness ==
    /\ tm.pc = "stopped" /\ tm.printed = "Incomplete data"
    /\ sock.cli = "closed" /\ running /\ tm.stats = NoStats


\* the step in which the dispatcher decrypts the complete record of plaintext
\* pt and runs the handlers for it
Handles(pt) ==
    /\ tm.pc = "handle" /\ tm'.pc # "handle"
    /\ tm.encrypted_data = encrypt_aes(pt, tm.aes_key)

\* the step appends exactly the length-prefixed, encrypted reply
Replies(reply) ==
    s2c' = s2c \o <<LenChunk(EncLen(reply.n)), encrypt_aes(reply, tm.aes_key)>>

\* the plaintext of the last message the step wrote to the client
LastReply == s2c'[Len(s2c')].body.pt

\* what a step of the dispatcher does when it handles one of the requests:
\* the reply of the one handler the precedence picks, and its statistics
OneHandlerStep ==
    /\ Handles(KeepaliveData)
         => /\ tm'.stats = tm.stats
            /\ sock.srv = "open"
                 => Replies(JsonDumps([status |-> "ok", type |-> "keepalive_ack"],
                                      KEEPALIVE_ACK_JSON_LEN))
    /\ (Handles(StatsReqJson) \/ Handles(StatsReqCmd))
         => /\ tm'.stats = tm.stats
            /\ sock.srv = "open"
                 => (Len(s2c') = Len(s2c) + 2 /\ LastReply.obj = tm.stats)
    /\ Handles(ForwardReq)
         => /\ tm'.stats.connections \in {tm.stats.connections,
                                          tm.stats.connections + 1}
            /\ sock.srv = "open"
                 => /\ Len(s2c') = Len(s2c) + 2
                    /\ LastReply.obj["status"] \in {"success", "error"}
    /\ Handles(ConnectReq)
         => /\ tm'.stats.packets_received = tm.stats.packets_received
            /\ sock.srv = "open"
                 => /\ Len(s2c') > Len(s2c)
                    /\ LastReply.text[1] \in {"CONNECT_OK", "CONNECT_ERROR"}
    /\ \A pt \in {HelloData, OtherTypeJson, JsonNonObject(6)} :
         Handles(pt)
           => /\ tm'.stats = [tm.stats EXCEPT !.packets_received = @ + 1]
              /\ sock.srv = "open"
                   => Replies(JsonDumps([status |-> "ack", size |-> pt.n],
                                        DATA_ACK_JSON_LEN))

\* C12: every decrypted plaintext is handled by exactly one handler, picked by
\* the precedence keepalive JSON, stats_request JSON, FORWARD:, CONNECT:,
\* STATS_REQ, opaque data: the reply written is that handler's reply, and the
\* statistics change as that handler alone changes them (the keepalive and
\* stats handlers count nothing, the opaque-data handler counts one packet)
C12_OneHandlerByPrecedence == [][OneHandlerStep]_vars

\* C13: the reply to a stats request (JSON type stats_request, or STATS_REQ)
\* is an object with exactly the keys tunnel_stats, flow_control_stats and
\* server_stats, whose tunnel_stats are the session's tunnel counters and whose
\* server_stats hold the server-wide counters
C13_StatsSnapshot ==
    [][((Handles(StatsReqJson) \/ Handles(StatsReqCmd)) /\ sock.srv = "open")
          => /\ Len(s2c') = Len(s2c) + 2
             /\ DOMAIN LastReply.obj
                  = {"tunnel_stats", "flow_control_stats", "server_stats"}
             /\ LastReply.obj["tunnel_stats"] = tm.stats
             /\ LastReply.obj["server_stats"]["active_tunnels"]
                  = global_stats.active_tunnels]_vars


\* the step answers a FORWARD request with the one error reply and leaves the
\* session as it was: the dispatcher is back at the head of its loop, still
\* running, and the registry, the sockets and the splice are untouched
ForwardErrorAnswered ==
    /\ Replies(ForwardError)
    /\ LastReply.obj = [status |-> "error", error |-> "message"]
    /\ tm'.pc = "select" /\ tm'.running = tm.running
    /\ UNCHANGED <<clients, sock, splice, running, c2s>>

\* the step answers a FORWARD request with the upstream's response
ForwardServed ==
    /\ Replies(ForwardSuccess)
    /\ tm'.pc = "select" /\ tm'.running = tm.running
    /\ tm'.stats.packets_received = tm.stats.packets_received + 1
    /\ UNCHANGED <<clients, sock, splice, running, c2s>>

\* C14: a FORWARD request that fails (unparsable port, upstream connect
\* failure, upstream read failure) is answered with exactly one
\* {status: error, error: message} reply and the session stays up; a valid
\* FORWARD request, also one after a failure, is answered with that error
\* reply or served with the upstream's response
C14_ForwardErrorKeepsSession ==
    [][/\ (Handles(ForwardBadPort) /\ sock.srv = "open") => ForwardErrorAnswered
       /\ (Handles(ForwardReq) /\ sock.srv = "open")
            => (ForwardErrorAnswered \/ ForwardServed)
       /\ (Handles(ForwardReq) /\ sock.srv = "open"
             /\ tm'.stats.packets_received = tm.stats.packets_received)
            => ForwardErrorAnswered]_vars

\* a FORWARD whose upstream read failed (a connection counted, no response
\* counted) was answered, the client has read the answer, and the next FORWARD
\* of the same session has been served
C14_Witness ==
    /\ tm.pc = "select" /\ tm.running /\ sock.srv = "open"
    /\ tm.stats.connections = 2 /\ tm.stats.packets_received = 1
    /\ splice.t1 = "none"
    /\ s2c = Framed(ForwardSuccess, tm.aes_key)

\* C15: when the handling of a FORWARD request has ended, on the success path
\* and on every error path, the upstream socket opened for it is closed
C15_UpstreamClosed == tm.fwd_dest # "open"


\* C16: every reply the dispatcher writes to the client (CONNECT_OK and
\* CONNECT_ERROR, keepalive acks, stats, FORWARD replies, data acks) is one
\* 4-byte big-endian length prefix followed by an encrypted payload of exactly
\* that length
C16_RepliesFramed ==
    [][(tm.pc = "handle" /\ tm'.pc # "handle" /\ s2c' # s2c)
          => IsFrame(Appended(s2c, s2c'))]_vars


\* C17: while the session is in CONNECT mode (forward_to_dest is running) the
\* dispatcher's read-and-classify loop is suspended: it has read no length
\* prefix and no record from the client socket, which only the splice reads
C17_DispatcherSuspended ==
    splice.t1 = "run" => tm.pc \notin {"recv_data", "handle"}


\* C18: in CONNECT mode, once the client or the upstream host has closed its
\* side, both splice tasks eventually terminate and both sockets, the client
\* socket and the upstream socket, end up closed
C18_SpliceTerminates ==
    (splice.t1 # "none" /\ (sock.cli = "closed" \/ splice.upstream_closed))
        ~> (/\ splice.t1 = "done" /\ splice.t2 = "done"
            /\ sock.srv = "closed" /\ splice.dest = "closed")


\* C19: the CONNECT splice is byte-transparent: what forward_to_client takes
\* from the upstream socket in one recv, whatever the byte values and however
\* the upstream's bytes are cut into chunks, reaches the client as a message
\* whose plaintext is exactly those bytes
C19_SpliceTransparent ==
    [][(splice.t2 # "none" /\ splice'.pending # splice.pending
          /\ Len(s2c') = Len(s2c) + 1)
          => \E r \in RecvUpstream(splice.pending) :
                /\ splice'.pending = r.rest
                /\ s2c'[Len(s2c')] = encrypt_aes(StrOfBytes(r.data), tm.aes_key)]_vars


\* C20: outside CONNECT mode the dispatcher processes the records in the order
\* they arrive on the wire, one at a time: it takes the prefix and then the
\* record from the front of the stream, reads nothing from the client socket
\* while it handles that record, and has written the whole reply to record k
\* when it is back at the head of its loop, where alone it starts to read
\* record k+1
C20_RecordsInOrder ==
    [][splice.t1 = "none" =>
         /\ (tm.pc # "recv_data" /\ tm'.pc = "recv_data")
               => (tm.pc = "select" /\ Avail(c2s') = Avail(c2s) - 4)
         /\ (tm.pc = "recv_data" /\ tm'.pc = "handle")
               => /\ tm'.encrypted_data = Take(c2s, tm.req_len)
                  /\ Avail(c2s') = Avail(c2s) - tm.req_len
                  /\ s2c' = s2c
         /\ (tm.pc = "handle" /\ c2s' # c2s)
               => (tm' = tm /\ (IsPrefix(c2s, c2s') \/ c2s' = <<>>))
         /\ (tm.pc = "handle" /\ (tm'.pc # "handle" \/ Len(s2c') > Len(s2c))
                /\ sock.srv = "open")
               => /\ tm'.pc = "select" /\ c2s' = c2s
                  /\ Handles(KeepaliveData) => Replies(KeepaliveAck)
                  /\ Handles(HelloData) => Replies(DataAck(HelloData))]_vars

\* two records that arrived back to back have been answered, in their order
C20_Witness ==
    /\ splice.t1 = "none" /\ tm.pc = "select" /\ c2s = <<>>
    /\ s2c = Framed(KeepaliveAck, tm.aes_key) \o Framed(DataAck(HelloData), tm.aes_key)


\* C21: on one tunnel socket the 4-byte prefix and the ciphertext of a record
\* are written contiguously under any interleaving of the concurrent writers:
\* what follows a record's prefix on the wire is that record's ciphertext,
\* never bytes of another record
C21_RecordsContiguous ==
    \A i \in 1..Len(tx.wire) :
        (tx.wire[i].part = "len" /\ i < Len(tx.wire))
            => /\ tx.wire[i + 1].by = tx.wire[i].by
               /\ tx.wire[i + 1].call = tx.wire[i].call
               /\ tx.wire[i + 1].part = "body"

\* C22: after shutdown() the accept loop takes no further connection and the
\* worker eventually exits with its socket closed, in whatever state shutdown
\* finds it: blocked in a handshake receive, idle in the dispatcher, in the
\* middle of a FORWARD, or in CONNECT mode
C22_ShutdownTerminates ==
    ~running ~> (\/ worker.pc = "idle"
                 \/ worker.pc = "done" /\ sock.srv = "closed")

\* the server has cleaned the session up: dispatcher loop ended, registry
\* entry removed, active_tunnels back at zero, server-side socket closed
SessionCleanedUp ==
    /\ tm.pc = "stopped"
    /\ worker.pc = "done"
    /\ address \notin DOMAIN clients
    /\ global_stats.active_tunnels = 0
    /\ sock.srv = "closed"

\* C23: once the client has closed an authenticated connection, the
\* dispatcher loop terminates, the worker removes the registry entry, the
\* server-side socket is closed, and active_tunnels is decremented exactly
\* once: by one, together with the removal of the entry
C23_ClientCloseCleansUp ==
    /\ (sock.cli = "closed" /\ address \in DOMAIN clients) ~> SessionCleanedUp
    /\ [][global_stats'.active_tunnels < global_stats.active_tunnels
            => /\ global_stats'.active_tunnels = global_stats.active_tunnels - 1
               /\ address \in DOMAIN clients
               /\ address \notin DOMAIN clients']_vars

\* the client called disconnect() on a session, the server did not shut down,
\* and the session is cleaned up
C23_Witness ==
    /\ running
    /\ sock.cli = "closed" /\ client.pc = "returned" /\ client.result.success
    /\ global_stats.total_connections = 1
    /\ Len(SelectSeq(events, LAMBDA e : e = "start_tunnel")) = 1
    /\ SessionCleanedUp

\* C24: after the cleanup of a session its key is zeroised: no registry entry
\* and no TunnelManager of the server still holds the key value
C24_KeyZeroised ==
    (worker.pc = "done" /\ worker.tunnel_manager)
        => /\ \A a \in DOMAIN clients : clients[a].aes_key = ""
           /\ tm.aes_key = ""

\* C25: no log line of the dispatcher and no stats reply depends on the
\* session key: two runs that differ only in the value of the session key
\* print the same sequence of messages and send stats replies with the same
\* plaintexts
C25_KeyIndependent ==
    \A k1, k2 \in IsoKeys :
        /\ iso.run[k1].log = iso.run[k2].log
        /\ iso.run[k1].replies = iso.run[k2].replies

\* C26: registrations and deregistrations by different workers lose no
\* update: whenever no worker is in the middle of registering or
\* deregistering, active_tunnels equals the number of registry entries, and
\* active_tunnels is never negative
C26_NoLostUpdate ==
    /\ NoneMidUpdate => reg.active_tunnels = Cardinality(reg.clients)
    /\ reg.active_tunnels >= 0

\* C27: a flow controller built with the default parameters keeps
\* min_window (4096) <= cwnd <= max_window (1048576) after any sequence of
\* on_packet_sent, on_ack_received (packet size >= 0), on_packet_loss and
\* on_timeout calls
C27_CwndWithinWindow ==
    fc.ctl.window_size = DEFAULT_WINDOW
        => (MIN_WINDOW <= fc.ctl.cwnd /\ fc.ctl.cwnd <= MAX_WINDOW)

\* an ack for a packet as large as the largest window has been received in slow
\* start, where the window grows by the packet size, and the cap has applied
C27_Witness ==
    /\ fc.ctl.window_size = DEFAULT_WINDOW
    /\ fc.called = "on_ack_received" /\ fc.ctl.total_packets_acked = 1
    /\ fc.ctl.cwnd = MAX_WINDOW /\ ~fc.ctl.in_slow_start

\* C28: ssthresh >= min_window holds for every flow controller, whatever
\* initial_window_size it was constructed with, initially and after any
\* sequence of calls
C28_SsthreshFloor == fc.ctl.ssthresh >= MIN_WINDOW

\* C29: packets_in_flight >= 0 in every reachable state of the flow
\* controller, also after an on_ack_received that no on_packet_sent preceded
C29_InFlightNonNegative == fc.ctl.packets_in_flight >= 0

\* C30: packets_in_flight equals total_packets_sent minus total_packets_acked
\* after any sequence of calls (so it is 0 whenever as many packets were acked
\* as were sent), and on_packet_loss and on_timeout leave the three counters
\* unchanged
C30_InFlightIsSentMinusAcked ==
    /\ [](fc.ctl.packets_in_flight
            = fc.ctl.total_packets_sent - fc.ctl.total_packets_acked)
    /\ [][(fc'.calls = fc.calls + 1
             /\ fc'.called \in {"on_packet_loss", "on_timeout"})
            => /\ fc'.ctl.packets_in_flight = fc.ctl.packets_in_flight
               /\ fc'.ctl.total_packets_sent = fc.ctl.total_packets_sent
               /\ fc'.ctl.total_packets_acked = fc.ctl.total_packets_acked]_vars

\* a packet was sent and acked, and a loss and then a timeout were signalled
C30_Witness ==
    /\ fc.ctl.total_packets_sent = 1 /\ fc.ctl.total_packets_acked = 1
    /\ fc.ctl.packets_in_flight = 0
    /\ fc.ctl.retransmissions = 1 /\ fc.called = "on_timeout" /\ fc.calls = 4


\* a call of method `name` has just returned (in an action formula)
Called(name) == fc'.calls = fc.calls + 1 /\ fc'.called = name

\* C31: in a sequence of calls without on_packet_loss and on_timeout, cwnd
\* never decreases from one state to the next, and once cwnd equals
\* max_window it stays at max_window
C31_CwndMonotone ==
    [][(fc'.called \notin {"on_packet_loss", "on_timeout"})
          => /\ fc'.ctl.cwnd >= fc.ctl.cwnd
             /\ fc.ctl.cwnd = MAX_WINDOW => fc'.ctl.cwnd = MAX_WINDOW]_vars

\* two acks and no loss or timeout: the first filled the window, the second
\* arrived in congestion avoidance with the window full
C31_Witness ==
    /\ fc.called = "on_ack_received" /\ fc.acks = 2 /\ fc.calls = 2
    /\ fc.ctl.cwnd = MAX_WINDOW /\ ~fc.ctl.in_slow_start

\* C32: on_ack_received(n, rtt): in slow start cwnd grows by n and slow start
\* is left iff the new cwnd >= ssthresh; in congestion avoidance cwnd grows by
\* max(1, floor(n*n / cwnd)); then cwnd is clamped to max_window; ssthresh is
\* unchanged
C32_AckWindowUpdate ==
    [][Called("on_ack_received")
          => LET f == fc.ctl
                 n == fc'.packet_size
                 grown == IF f.in_slow_start THEN f.cwnd + n
                          ELSE f.cwnd + Max(1, MulDivMod(n, n, f.cwnd).q) IN
             /\ fc'.ctl.cwnd = Min(grown, MAX_WINDOW)
             /\ fc'.ctl.in_slow_start = (f.in_slow_start /\ ~(grown >= f.ssthresh))
             /\ fc'.ctl.ssthresh = f.ssthresh]_vars

\* an ack of 1024 bytes in congestion avoidance at cwnd 4096 added 256
C32_Witness ==
    /\ fc.called = "on_ack_received" /\ fc.packet_size = 1024
    /\ ~fc.ctl.in_slow_start /\ fc.ctl.cwnd = MIN_WINDOW + 256
    /\ fc.ctl.ssthresh = MIN_WINDOW

\* C33: on_packet_loss() sets ssthresh to max(floor(cwnd/2), min_window) of
\* the cwnd before the call, sets cwnd to the new ssthresh and leaves slow
\* start; packets_in_flight, total sent and total acked are unchanged
C33_PacketLoss ==
    [][Called("on_packet_loss")
          => /\ fc'.ctl.ssthresh = Max(fc.ctl.cwnd \div 2, MIN_WINDOW)
             /\ fc'.ctl.cwnd = fc'.ctl.ssthresh
             /\ ~fc'.ctl.in_slow_start
             /\ fc'.ctl.packets_in_flight = fc.ctl.packets_in_flight
             /\ fc'.ctl.total_packets_sent = fc.ctl.total_packets_sent
             /\ fc'.ctl.total_packets_acked = fc.ctl.total_packets_acked]_vars

\* a loss signalled with the window full: both halved, above the floor
C33_Witness ==
    /\ fc.called = "on_packet_loss"
    /\ fc.ctl.ssthresh = MAX_WINDOW \div 2 /\ fc.ctl.cwnd = MAX_WINDOW \div 2
    /\ ~fc.ctl.in_slow_start /\ fc.ctl.packets_in_flight = -1

\* C34: on_timeout() sets ssthresh to max(floor(cwnd/2), min_window) of the
\* cwnd before the call, sets cwnd to min_window and re-enters slow start;
\* retransmissions, packets_in_flight and the RTT estimator are unchanged
C34_Timeout ==
    [][Called("on_timeout")
          => /\ fc'.ctl.ssthresh = Max(fc.ctl.cwnd \div 2, MIN_WINDOW)
             /\ fc'.ctl.cwnd = MIN_WINDOW
             /\ fc'.ctl.in_slow_start
             /\ fc'.ctl.retransmissions = fc.ctl.retransmissions
             /\ fc'.ctl.packets_in_flight = fc.ctl.packets_in_flight
             /\ fc'.ctl.smoothed_rtt = fc.ctl.smoothed_rtt
             /\ fc'.ctl.rtt_variance = fc.ctl.rtt_variance
             /\ fc'.ctl.rtt_samples = fc.ctl.rtt_samples]_vars

\* a timeout in congestion avoidance with the window full and an RTT estimate
C34_Witness ==
    /\ fc.called = "on_timeout"
    /\ fc.ctl.ssthresh = MAX_WINDOW \div 2 /\ fc.ctl.cwnd = MIN_WINDOW
    /\ fc.ctl.in_slow_start /\ fc.ctl.smoothed_rtt > 0
    /\ fc.ctl.retransmissions = 0

\* C35: get_timeout() returns 1.0 while no RTT sample has been received, and
\* once a sample has been received, a sample of 0 included, it returns
\* SRTT + 4*RTTVAR clamped to [0.2, 60.0]
C35_TimeoutFromEstimator ==
    IF fc.acks = 0
    THEN get_timeout(fc.ctl) = SECOND
    ELSE get_timeout(fc.ctl) =
            Max(SECOND \div 5,
                Min(5 * (fc.ctl.smoothed_rtt + 4 * fc.ctl.rtt_variance), 60 * SECOND))

\* C40: for a controller built with the default parameters, whenever
\* in_slow_start is false, cwnd >= ssthresh
C40_AvoidanceAboveThreshold ==
    (fc.ctl.window_size = DEFAULT_WINDOW /\ ~fc.ctl.in_slow_start)
        => fc.ctl.cwnd >= fc.ctl.ssthresh

\* a default controller in congestion avoidance after a loss, a timeout, a
\* second loss and an ack
C40_Witness ==
    /\ fc.ctl.window_size = DEFAULT_WINDOW
    /\ fc.calls = 4 /\ fc.called = "on_ack_received"
    /\ fc.ctl.retransmissions = 2
    /\ ~fc.ctl.in_slow_start /\ fc.ctl.cwnd > fc.ctl.ssthresh


\* the final bytes of `padded` are PKCS#7 padding: the final byte is between
\* 1 and 16 and that many final bytes carry its value
WellPadded(padded) ==
    /\ padded # <<>>
    /\ LET last == padded[Len(padded)] IN
       /\ last >= 1 /\ last <= AES_BLOCK /\ last <= Len(padded)
       /\ \A i \in (Len(padded) - last + 1)..Len(padded) : padded[i] = last

\* C36: decrypt fails and returns no plaintext for an input shorter than 16
\* bytes, for a ciphertext part that is empty or no multiple of 16 bytes, and
\* for malformed PKCS#7 padding of the decrypted last block; it returns a
\* plaintext only for well-formed padding
C36_DecryptRejectsMalformed ==
    (dec.returned /\ dec.ok)
        => /\ dec.n >= 2 * AES_BLOCK /\ dec.n % AES_BLOCK = 0
           /\ WellPadded(dec.padded)


\* one reply: a length-prefixed message, or one message without prefix
OneReply(m) == IsFrame(m) \/ (Len(m) = 1 /\ m[1].t = "blob")

\* C37: every record the dispatcher decrypts successfully outside CONNECT
\* mode produces exactly one reply to the client before the next record is
\* read, FORWARD requests with missing fields or an empty payload included
C37_OneReplyPerRecord ==
    [][(/\ tm.pc = "handle" /\ tm'.pc # "handle"
        /\ tm'.printed = "Decrypted request"
        /\ splice.t1 = "none" /\ sock.srv = "open")
          => OneReply(Appended(s2c, s2c'))]_vars

\* C38: every send_data call that returns success returns the reply to its
\* own request, whichever way the callers interleave
C38_OwnReply ==
    \A c \in Callers :
        rpc.caller[c].success => rpc.caller[c].ack = ReplyTo(RequestOf(c))

\* the keepalive threads that have not returned
Alive == {t \in DOMAIN ka.thread : ka.thread[t].pc # "done"}

\* C39: at most one keepalive thread of a client object runs at any time, and
\* a keepalive is sent only on the connection its thread was started for
C39_OneKeepaliveTask ==
    /\ Cardinality(Alive) <= 1
    /\ \A i \in DOMAIN ka.sent :
          ka.sent[i].socket = ka.thread[ka.sent[i].thread].started_for

=============================================================================
